---------------------------- MODULE Spec2Model ----------------------------
(***************************************************************************)
(* UmaCore: quota reconciliation, bomb escalation and the per-club scrape  *)
(* lock, modelled from services/quota_calculator.py,                       *)
(* services/bomb_manager.py, services/scrape_lock_manager.py, bot/tasks.py *)
(* and bot/commands/admin.py together with the row operations of models/.  *)
(*                                                                         *)
(* Conventions.                                                            *)
(*  - Dates are integers (days); a month has MonthLen days, day d lies in  *)
(*    month MonthOf(d) and is day DayOfMonth(d) of it.                     *)
(*  - Fan counts are in units of one default daily quota.                  *)
(*  - The database tables are the variables members, quota_history,        *)
(*    bombs, quota_requirements and scrape_locks.  The table operations    *)
(*    are operators over a record db holding the first four tables, so     *)
(*    that a pass can be composed from them.                               *)
(*  - Each operation is translated from its own body.  A call is bound to  *)
(*    the callee by name: BombManager passes club_id / current_date to     *)
(*    Bomb.get_all_active, Bomb.create and Bomb.decrement_days, whose      *)
(*    bodies in models/bomb.py declare and use neither; those arguments    *)
(*    therefore have no effect on the rows.  The same holds for the        *)
(*    club_name that tasks.py passes to the report builders of             *)
(*    services/report_generator.py: the report is built and sent.          *)
(*  - Where ORDER BY leaves the first row open (quota_requirements rows    *)
(*    sharing an effective_date), every such row is a possible result.     *)
(*  - A bomb row's club is its member's club.                              *)
(*                                                                         *)
(* Specifications.                                                         *)
(*  - SpecSeq:  one pass per day, each pass one step.                      *)
(*  - SpecDay:  several scheduled or manual passes a day, each one step.   *)
(*  - SpecIdem: process_scraped_data alone, and the same call repeated.    *)
(*  - Spec:     a scheduled run, a manual run and the admin commands,      *)
(*              interleaved at the awaits of the pipeline.                 *)
(*  - SpecLock: two scheduled triggers for one club while time passes.     *)
(*  - SpecRun:  one scheduled run at a time over a two-member club, the    *)
(*              retry loop one attempt at a step.                          *)
(*  - SpecRoster: one pass per day while members leave and come back.      *)
(*  - SpecReset: _detect_monthly_reset_from_scraped applied to its inputs. *)
(*  - SpecQuota: /quota commands over a month and calculate_expected_fans  *)
(*              applied to the schedule they leave.                        *)
(*  - SpecCrash: triggers for one club whose runs can die inside the       *)
(*              "async with" block, while time passes.                     *)
(*  - SpecClubs: the passes of one club while a second club has rows.      *)
(*  - SpecNames: one pass per day while a member changes the trainer name. *)
(*  - SpecBombs: one pass per day, each call of the pass a step.           *)
(*  - SpecCountdown: a scheduled and manual runs of one day, with          *)
(*              update_bomb_countdowns interleaved at its awaits.          *)
(*  - SpecSettings: /add_club and /edit_club over two club names.          *)
(*  - SpecEntry: one pass over a one-member scrape whose fans list and     *)
(*              current_day are drawn from small sets.                     *)
(*  - SpecJoin: the join date of a new member, computed from the day of    *)
(*              the month the scrape reports and the calendar date.        *)
(*  - SpecHourly: the hourly_check loop of bot/tasks.py over two clubs;    *)
(*              last_runs, now and launched are its state.                 *)
(*  - SpecHourlyFair: SpecHourly with the loop firing every hour.          *)
(*  - SpecMembers: one pass per day with /add_member,                      *)
(*              /deactivate_member and /activate_member between passes.    *)
(***************************************************************************)
EXTENDS Integers, Sequences, FiniteSets, TLC

\* ------------------------------------------------------------------ bounds
MonthLen == 30
MaxDay == 3
SeqExtraDays == 0
IdemDays == 11
MaxRuns == 2

\* ------------------------------------------------------- program constants
LOCK_TIMEOUT_MINUTES == 30
max_retries == 3
HISTORY_WINDOW == 10
DEFAULT_DAILY_QUOTA == 1

\* ------------------------------------------------------------- identities
NoDate == 0 - 999
NoId == "none"
NoRow == [none |-> TRUE]

\* --------------------------------------------------------------- calendar
MonthOf(d) == (d - 1) \div MonthLen
DayOfMonth(d) == ((d - 1) % MonthLen) + 1
FirstOfMonth(d) == MonthOf(d) * MonthLen + 1
MkDate(month, day) == month * MonthLen + day

\* ---------------------------------------------------------------- helpers
Max(S) == CHOOSE x \in S : \A y \in S : y <= x

\* ------------------------------------------------------ quota_requirements
\* QuotaRequirement.create: a plain INSERT; the table has no unique constraint,
\* so a club can have several rows with one effective_date
QuotaRequirement_create(db, c, effective_date, daily_quota, set_by) ==
  [db EXCEPT !.quota_requirements =
     @ \cup {[club_id |-> c, effective_date |-> effective_date,
              daily_quota |-> daily_quota, set_by |-> set_by]}]

\* the query of get_quota_for_date with effective_date < check_date
QuotaOutcomes_before(db, clubs_, c, check_date) ==
  LET rows == {r \in db.quota_requirements :
                  r.club_id = c /\ r.effective_date < check_date}
      top == {r \in rows : \A s \in rows : s.effective_date <= r.effective_date}
  IN IF rows # {}
       THEN {r.daily_quota : r \in top}
       ELSE {IF c \in DOMAIN clubs_ THEN clubs_[c].daily_quota ELSE DEFAULT_DAILY_QUOTA}

\* what QuotaRequirement.get_quota_for_date can return: the daily_quota of a row
\* with effective_date <= d that ORDER BY effective_date DESC puts first (any of
\* the rows sharing the greatest date), else the club's daily_quota
QuotaOutcomes(db, clubs_, c, check_date) ==
  LET rows == {r \in db.quota_requirements :
                  r.club_id = c /\ r.effective_date <= check_date}
      top == {r \in rows : \A s \in rows : s.effective_date <= r.effective_date}
  IN IF rows # {}
       THEN {r.daily_quota : r \in top}
       ELSE {IF c \in DOMAIN clubs_ THEN clubs_[c].daily_quota ELSE DEFAULT_DAILY_QUOTA}

\* QuotaRequirement.get_quota_for_date, for a table without rows sharing a date
get_quota_for_date(db, clubs_, c, check_date) ==
  CHOOSE q \in QuotaOutcomes(db, clubs_, c, check_date) : TRUE

\* ------------------------------------------------------------ quota maths
\* the start date always the join date
EffectiveStart_join(member_join_date, current_date) == member_join_date

EffectiveStart(member_join_date, current_date) ==
  IF MonthOf(member_join_date) = MonthOf(current_date)
    THEN member_join_date
    ELSE FirstOfMonth(current_date)

\* the loop of calculate_expected_fans over the days lo..hi: every total the
\* per-day queries can add up to
RECURSIVE SumQuotaOutcomes(_, _, _, _, _)
SumQuotaOutcomes(db, clubs_, c, lo, hi) ==
  IF lo > hi THEN {0}
  ELSE {q + rest : q \in QuotaOutcomes(db, clubs_, c, lo),
                   rest \in SumQuotaOutcomes(db, clubs_, c, lo + 1, hi)}

\* the loop of calculate_expected_fans: the quotas of the days lo..hi added up
RECURSIVE SumQuota(_, _, _, _, _)
SumQuota(db, clubs_, c, lo, hi) ==
  IF lo > hi THEN 0
  ELSE get_quota_for_date(db, clubs_, c, lo) + SumQuota(db, clubs_, c, lo + 1, hi)

calculate_expected_fans(db, clubs_, c, member_join_date, current_date) ==
  SumQuota(db, clubs_, c, EffectiveStart(member_join_date, current_date), current_date)

\* QuotaCalculator.calculate_expected_fans, every result it can return
ExpectedOutcomes(db, clubs_, c, member_join_date, current_date) ==
  SumQuotaOutcomes(db, clubs_, c, EffectiveStart(member_join_date, current_date), current_date)

calculate_days_active_in_month(member_join_date, current_date) ==
  (current_date - EffectiveStart(member_join_date, current_date)) + 1

calculate_deficit_surplus(actual_fans, expected_fans) == actual_fans - expected_fans

\* ----------------------------------------------------------- quota_history
RowsOf(db, m) == {h \in db.quota_history : h.member_id = m}

\* ORDER BY date DESC LIMIT n, as a sequence (newest first)
RECURSIVE NewestFirst(_, _)
NewestFirst(rows, n) ==
  IF rows = {} \/ n <= 0 THEN <<>>
  ELSE LET top == CHOOSE h \in rows : \A g \in rows : g.date <= h.date
       IN <<top>> \o NewestFirst(rows \ {top}, n - 1)

get_last_n_days(db, m, n) == NewestFirst(RowsOf(db, m), n)

get_latest_for_member(db, m) ==
  LET s == NewestFirst(RowsOf(db, m), 1) IN IF s = <<>> THEN NoRow ELSE s[1]

HasRow(h) == h # NoRow

\* QuotaHistory.create: INSERT ... ON CONFLICT (member_id, date) DO UPDATE
QuotaHistory_create(db, m, c, date, cumulative_fans, expected_fans, deficit_surplus, days_behind) ==
  LET row == [member_id |-> m, club_id |-> c, date |-> date,
              cumulative_fans |-> cumulative_fans, expected_fans |-> expected_fans,
              deficit_surplus |-> deficit_surplus, days_behind |-> days_behind]
      kept == {h \in db.quota_history : ~(h.member_id = m /\ h.date = date)}
  IN [db EXCEPT !.quota_history = kept \cup {row}]

\* length of the leading run of rows with deficit_surplus < 0
RECURSIVE LeadingBehind(_)
LeadingBehind(s) ==
  IF s = <<>> THEN 0
  ELSE IF s[1].deficit_surplus < 0 THEN 1 + LeadingBehind(Tail(s)) ELSE 0

\* check_consecutive_behind_days counting over the HISTORY_WINDOW newest rows
check_consecutive_behind_days_window(db, m, check_days) ==
  LET recent_days == NewestFirst(RowsOf(db, m), HISTORY_WINDOW)
      behind == {i \in 1..Len(recent_days) : recent_days[i].deficit_surplus < 0}
  IN IF recent_days # <<>> /\ recent_days[1].deficit_surplus < 0
       THEN Cardinality(behind) ELSE 0

\* QuotaHistory.check_consecutive_behind_days: among the check_days newest
\* rows, the number with deficit_surplus < 0, or 0 when the newest is not behind
check_consecutive_behind_days(db, m, check_days) ==
  LET recent_days == NewestFirst(RowsOf(db, m), check_days)
      behind == {i \in 1..Len(recent_days) : recent_days[i].deficit_surplus < 0}
  IN IF recent_days # <<>> /\ recent_days[1].deficit_surplus < 0
       THEN Cardinality(behind) ELSE 0

\* QuotaCalculator._calculate_days_behind
calculate_days_behind(db, m, current_deficit_surplus, current_date) ==
  IF current_deficit_surplus >= 0 THEN 0
  ELSE LET recent_history == get_last_n_days(db, m, HISTORY_WINDOW)
           before == SelectSeq(recent_history, LAMBDA h : h.date < current_date)
       IN IF recent_history = <<>> THEN 1 ELSE 1 + LeadingBehind(before)


\* ------------------------------------------------------------------ members
MemberKey(row) == IF row.trainer_id # NoId THEN row.trainer_id ELSE row.trainer_name

\* Member.get_all_active(club_id)
get_all_active(db, c) ==
  {m \in DOMAIN db.members : db.members[m].club_id = c /\ db.members[m].is_active}

\* Member.get_by_trainer_id / Member.get_by_name; NoId when there is no row
get_by_trainer_id(db, c, trainer_id) ==
  LET hit == {m \in DOMAIN db.members :
                db.members[m].club_id = c /\ db.members[m].trainer_id = trainer_id}
  IN IF hit = {} THEN NoId ELSE CHOOSE m \in hit : TRUE

get_by_name(db, c, trainer_name) ==
  LET hit == {m \in DOMAIN db.members :
                db.members[m].club_id = c /\ db.members[m].trainer_name = trainer_name}
  IN IF hit = {} THEN NoId ELSE CHOOSE m \in hit : TRUE

\* Member.create: is_active and manually_deactivated take the column defaults,
\* last_seen is the join date; the new member_id is a fresh identifier
Member_create(db, newid, c, trainer_name, join_date, trainer_id) ==
  LET row == [club_id |-> c, trainer_id |-> trainer_id, trainer_name |-> trainer_name,
              join_date |-> join_date, is_active |-> TRUE,
              manually_deactivated |-> FALSE, last_seen |-> join_date]
  IN [db EXCEPT !.members = (newid :> row) @@ db.members]

Member_deactivate(db, m, manual) ==
  [db EXCEPT !.members[m].is_active = FALSE, !.members[m].manually_deactivated = manual]

\* Member.activate leaving manually_deactivated as it is
Member_activate_keep(db, m) == [db EXCEPT !.members[m].is_active = TRUE]

\* Member.activate
Member_activate(db, m) ==
  [db EXCEPT !.members[m].is_active = TRUE, !.members[m].manually_deactivated = FALSE]

Member_update_name(db, m, new_name) == [db EXCEPT !.members[m].trainer_name = new_name]

Member_update_last_seen(db, m, last_seen) == [db EXCEPT !.members[m].last_seen = last_seen]

\* ------------------------------------------------------ reconciliation pass
LastFans(e) == IF e.fans = <<>> THEN 0 ELSE e.fans[Len(e.fans)]

\* QuotaCalculator._get_previous_cumulative_totals: key -> cumulative_fans of the
\* rows dated MAX(date) of the club's quota_history
get_previous_cumulative_totals(db, c) ==
  LET clubrows == {h \in db.quota_history : h.club_id = c}
      maxdate == Max({h.date : h \in clubrows})
      joined == {h \in clubrows : h.date = maxdate /\ h.member_id \in DOMAIN db.members
                                  /\ db.members[h.member_id].club_id = c}
      keys == {MemberKey(db.members[h.member_id]) : h \in joined}
  IN IF clubrows = {} THEN << >>
     ELSE [k \in keys |->
             (CHOOSE h \in joined : MemberKey(db.members[h.member_id]) = k).cumulative_fans]

\* the comparison taken as current <= 0.5 * previous
IsDrop_upto(current_fans, previous_fans) ==
  current_fans > 0 /\ 2 * current_fans <= previous_fans

\* 0 < current < 0.5 * previous, in integers
IsDrop(current_fans, previous_fans) == current_fans > 0 /\ 2 * current_fans < previous_fans

\* QuotaCalculator._detect_monthly_reset_from_scraped
detect_monthly_reset_from_scraped(scraped_data, previous_totals) ==
  IF DOMAIN previous_totals = {} THEN FALSE
  ELSE IF DOMAIN scraped_data = {} THEN FALSE
  ELSE \E key \in DOMAIN scraped_data :
          /\ key \in DOMAIN previous_totals
          /\ IsDrop(LastFans(scraped_data[key]), previous_totals[key])

\* the reset branch with its statements not restricted to the club
MonthlyReset_all(db, c) ==
  [db EXCEPT
     !.quota_history = {},
     !.bombs = {},
     !.quota_requirements = {},
     !.members = [m \in DOMAIN db.members |->
                    [db.members[m] EXCEPT !.manually_deactivated = FALSE]]]

\* the reset branch of process_scraped_data: the club's quota_history, bombs and
\* quota_requirements are deleted and its manual-deactivation flags cleared
MonthlyReset(db, c) ==
  [db EXCEPT
     !.quota_history = {h \in db.quota_history : h.club_id # c},
     !.bombs = {b \in db.bombs : ~(b.member_id \in DOMAIN db.members
                                   /\ db.members[b.member_id].club_id = c)},
     !.quota_requirements = {r \in db.quota_requirements : r.club_id # c},
     !.members = [m \in DOMAIN db.members |->
                    IF db.members[m].club_id = c /\ db.members[m].manually_deactivated
                      THEN [db.members[m] EXCEPT !.manually_deactivated = FALSE]
                      ELSE db.members[m]]]

\* _auto_deactivate_missing_members calling member.deactivate(manual=True)
auto_deactivate_missing_members_manual(db, c, scraped_trainer_ids) ==
  [db EXCEPT !.members = [m \in DOMAIN db.members |->
     IF db.members[m].club_id = c /\ db.members[m].is_active
        /\ MemberKey(db.members[m]) \notin scraped_trainer_ids
       THEN [db.members[m] EXCEPT !.is_active = FALSE, !.manually_deactivated = TRUE]
       ELSE db.members[m]]]

\* QuotaCalculator._auto_deactivate_missing_members
auto_deactivate_missing_members(db, c, scraped_trainer_ids) ==
  [db EXCEPT !.members = [m \in DOMAIN db.members |->
     IF db.members[m].club_id = c /\ db.members[m].is_active
        /\ MemberKey(db.members[m]) \notin scraped_trainer_ids
       THEN [db.members[m] EXCEPT !.is_active = FALSE, !.manually_deactivated = FALSE]
       ELSE db.members[m]]]

\* join date of a member first seen in this pass
InferJoinDate(detected_join_day, current_date) ==
  IF detected_join_day > DayOfMonth(current_date)
    THEN MkDate(MonthOf(current_date) - 1, detected_join_day)
    ELSE MkDate(MonthOf(current_date), detected_join_day)

\* ledger part of one loop iteration (lines 257-283), for member m
WriteLedger(db, clubs_, c, m, cumulative_fans, current_date) ==
  LET d1 == Member_update_last_seen(db, m, current_date)
      join_date == d1.members[m].join_date
      expected_fans == calculate_expected_fans(d1, clubs_, c, join_date, current_date)
      deficit_surplus == calculate_deficit_surplus(cumulative_fans, expected_fans)
      days_behind == calculate_days_behind(d1, m, deficit_surplus, current_date)
  IN QuotaHistory_create(d1, m, c, current_date, cumulative_fans, expected_fans,
                         deficit_surplus, days_behind)

\* a Python list index: i in 0..len-1 counts from the front, -len..-1 from the
\* back, anything else is an IndexError
PyIndexInRange(list, i) == 0 - Len(list) <= i /\ i < Len(list)
PyIndex(list, i) == IF i >= 0 THEN list[i + 1] ELSE list[Len(list) + i + 1]

\* lines 202-210: the index of the current day, moved to the last one when it
\* is past the end of the list
current_day_index(daily_fans, current_day) ==
  IF current_day - 1 >= Len(daily_fans) THEN Len(daily_fans) - 1 ELSE current_day - 1

\* the cumulative fans always read from the last element of the list
CumulativeFans_last(daily_fans, current_day) == daily_fans[Len(daily_fans)]

\* line 212: cumulative_fans = daily_fans[current_day_index]
CumulativeFans(daily_fans, current_day) ==
  PyIndex(daily_fans, current_day_index(daily_fans, current_day))

\* one iteration of the loop over scraped_data (lines 189-288)
ProcessEntry(db, clubs_, c, key, e, current_date, current_day) ==
  IF e.fans = <<>> THEN db
  ELSE
    LET cumulative_fans == CumulativeFans(e.fans, current_day)
        member == IF e.trainer_id # NoId
                    THEN get_by_trainer_id(db, c, e.trainer_id)
                    ELSE get_by_name(db, c, e.name)
    IN IF member = NoId
         THEN LET join_date == InferJoinDate(e.join_day, current_date)
                  d1 == Member_create(db, key, c, e.name, join_date, e.trainer_id)
              IN WriteLedger(d1, clubs_, c, key, cumulative_fans, current_date)
         ELSE LET d1 == IF db.members[member].trainer_name # e.name
                          THEN Member_update_name(db, member, e.name) ELSE db
              IN IF ~db.members[member].is_active
                   THEN IF db.members[member].manually_deactivated
                          THEN d1
                          ELSE WriteLedger(Member_activate(d1, member), clubs_, c, member,
                                           cumulative_fans, current_date)
                   ELSE WriteLedger(d1, clubs_, c, member, cumulative_fans, current_date)

RECURSIVE ProcessEntries(_, _, _, _, _, _, _)
ProcessEntries(db, clubs_, c, scraped_data, keys, current_date, current_day) ==
  IF keys = {} THEN db
  ELSE LET key == CHOOSE k \in keys : TRUE
       IN ProcessEntries(ProcessEntry(db, clubs_, c, key, scraped_data[key],
                                      current_date, current_day),
                         clubs_, c, scraped_data, keys \ {key}, current_date, current_day)

\* process_scraped_data when an iteration of its member loop raises: the loop has
\* no try/except, so the entries done so far are written and the rest are not
process_scraped_data_raised(db, clubs_, c, scraped_data, done, current_date, current_day) ==
  LET previous_totals == get_previous_cumulative_totals(db, c)
      d1 == IF detect_monthly_reset_from_scraped(scraped_data, previous_totals)
              THEN MonthlyReset(db, c) ELSE db
      d2 == auto_deactivate_missing_members(d1, c, DOMAIN scraped_data)
  IN ProcessEntries(d2, clubs_, c, scraped_data, done, current_date, current_day)

\* process_scraped_data with the member loop first and the reset after it
process_scraped_data_upsert_first(db, clubs_, c, scraped_data, current_date, current_day) ==
  LET previous_totals == get_previous_cumulative_totals(db, c)
      d1 == ProcessEntries(db, clubs_, c, scraped_data, DOMAIN scraped_data,
                           current_date, current_day)
      d2 == auto_deactivate_missing_members(d1, c, DOMAIN scraped_data)
  IN IF detect_monthly_reset_from_scraped(scraped_data, previous_totals)
       THEN MonthlyReset(d2, c) ELSE d2

\* QuotaCalculator.process_scraped_data
process_scraped_data(db, clubs_, c, scraped_data, current_date, current_day) ==
  LET previous_totals == get_previous_cumulative_totals(db, c)
      d1 == IF detect_monthly_reset_from_scraped(scraped_data, previous_totals)
              THEN MonthlyReset(db, c) ELSE db
      d2 == auto_deactivate_missing_members(d1, c, DOMAIN scraped_data)
  IN ProcessEntries(d2, clubs_, c, scraped_data, DOMAIN scraped_data,
                    current_date, current_day)

\* -------------------------------------------------------------------- bombs
\* Bomb.get_all_active: every row with is_active = TRUE
Bomb_get_all_active(db) == {b \in db.bombs : b.is_active}

\* Bomb.get_active_for_member
Bomb_get_active_for_member(db, m) == {b \in db.bombs : b.member_id = m /\ b.is_active}

\* Bomb.create reusing the member's closed row where there is one
Bomb_create_reuse(db, m, activation_date, days_remaining) ==
  IF \E b \in db.bombs : b.member_id = m
    THEN LET old == CHOOSE b \in db.bombs : b.member_id = m
         IN [db EXCEPT !.bombs = (db.bombs \ {old}) \cup
               {[old EXCEPT !.is_active = TRUE, !.activation_date = activation_date,
                            !.days_remaining = days_remaining]}]
    ELSE [db EXCEPT !.bombs = db.bombs \cup
            {[bomb_id |-> db.bomb_seq + 1, member_id |-> m,
              activation_date |-> activation_date, days_remaining |-> days_remaining,
              is_active |-> TRUE, deactivation_date |-> NoDate]},
            !.bomb_seq = db.bomb_seq + 1]

\* Bomb.create: a new row with a fresh bomb_id, is_active by column default
Bomb_create(db, m, activation_date, days_remaining) ==
  LET row == [bomb_id |-> db.bomb_seq + 1, member_id |-> m,
              activation_date |-> activation_date, days_remaining |-> days_remaining,
              is_active |-> TRUE, deactivation_date |-> NoDate]
  IN [db EXCEPT !.bombs = db.bombs \cup {row}, !.bomb_seq = db.bomb_seq + 1]

\* Bomb.deactivate
Bomb_deactivate(b, deactivation_date) ==
  [b EXCEPT !.is_active = FALSE, !.deactivation_date = deactivation_date]

\* Bomb.decrement_days without its "days_remaining > 0" test
Bomb_decrement_days_nofloor(b) == [b EXCEPT !.days_remaining = b.days_remaining - 1]

\* Bomb.decrement_days
Bomb_decrement_days(b) ==
  IF b.days_remaining > 0 THEN [b EXCEPT !.days_remaining = b.days_remaining - 1] ELSE b

\* the decision of check_and_activate_bombs for one member (lines 33-41)
ShouldActivate(db, clubs_, c, m) ==
  /\ Bomb_get_active_for_member(db, m) = {}
  /\ check_consecutive_behind_days(db, m, clubs_[c].bomb_trigger_days)
        >= clubs_[c].bomb_trigger_days

RECURSIVE ActivateEach(_, _, _, _, _)
ActivateEach(db, clubs_, c, ms, current_date) ==
  IF ms = {} THEN db
  ELSE LET m == CHOOSE x \in ms : TRUE
           d1 == IF ShouldActivate(db, clubs_, c, m)
                   THEN Bomb_create(db, m, current_date, clubs_[c].bomb_countdown_days)
                   ELSE db
       IN ActivateEach(d1, clubs_, c, ms \ {m}, current_date)

\* BombManager.check_and_activate_bombs
check_and_activate_bombs(db, clubs_, c, current_date) ==
  ActivateEach(db, clubs_, c, get_all_active(db, c), current_date)

\* BombManager.update_bomb_countdowns
update_bomb_countdowns(db, current_date) ==
  [db EXCEPT !.bombs = {IF b.is_active THEN Bomb_decrement_days(b) ELSE b : b \in db.bombs}]

\* the test of check_and_deactivate_bombs with "> 0" for ">= 0"
BackOnTrack_strict(db, b) ==
  LET latest_history == get_latest_for_member(db, b.member_id)
  IN HasRow(latest_history) /\ latest_history.deficit_surplus > 0

\* BombManager.check_and_deactivate_bombs: the test on one bomb (lines 70-73)
BackOnTrack(db, b) ==
  LET latest_history == get_latest_for_member(db, b.member_id)
  IN HasRow(latest_history) /\ latest_history.deficit_surplus >= 0

check_and_deactivate_bombs(db, current_date) ==
  [db EXCEPT !.bombs = {IF b.is_active /\ BackOnTrack(db, b)
                          THEN Bomb_deactivate(b, current_date) ELSE b : b \in db.bombs}]

\* check_expired_bombs without the test of member.is_active
check_expired_bombs_any(db) ==
  {b.member_id : b \in {x \in Bomb_get_all_active(db) :
      /\ x.days_remaining <= 0
      /\ x.member_id \in DOMAIN db.members
      /\ LET latest_history == get_latest_for_member(db, x.member_id)
         IN HasRow(latest_history) /\ latest_history.deficit_surplus < 0}}

\* check_expired_bombs closing what it reports: the bomb deactivated, the member
\* deactivated
check_expired_bombs_closing(db) ==
  LET gone == {b.member_id : b \in {x \in Bomb_get_all_active(db) : x.days_remaining <= 0}}
  IN [db EXCEPT
        !.bombs = {IF b.is_active /\ b.member_id \in gone
                     THEN [b EXCEPT !.is_active = FALSE] ELSE b : b \in db.bombs},
        !.members = [m \in DOMAIN db.members |->
                       IF m \in gone THEN [db.members[m] EXCEPT !.is_active = FALSE]
                       ELSE db.members[m]]]

\* the writes of BombManager.check_expired_bombs: it issues SELECTs only
check_expired_bombs_writes(db) == db

\* BombManager.check_expired_bombs: the members to kick
check_expired_bombs(db) ==
  {b.member_id : b \in {x \in Bomb_get_all_active(db) :
      /\ x.days_remaining <= 0
      /\ x.member_id \in DOMAIN db.members
      /\ db.members[x.member_id].is_active
      /\ LET latest_history == get_latest_for_member(db, x.member_id)
         IN HasRow(latest_history) /\ latest_history.deficit_surplus < 0}}


\* ==================================================================== state
VARIABLES
  clubs,               \* clubs table: club_id -> configuration
  members,             \* members table: member_id -> row
  quota_history,       \* quota_history table: set of rows, unique (member_id, date)
  bombs,               \* bombs table: set of rows
  bomb_seq,            \* number of bomb rows ever inserted (fresh bomb_id)
  quota_requirements,  \* quota_requirements table: set of rows
  scrape_locks,        \* scrape_locks table: club_id -> [locked_by, age]
  today,               \* calendar date in the club's timezone
  pc,                  \* position of each pipeline run
  run,                 \* local variables of each pipeline run
  started,             \* pipeline runs started (per day where passes are single steps)
  op,                  \* the last step of a pass-level run; the exit path of the last return
  cd_log,              \* <<bomb_id, date>> -> decrements applied with that current_date
  behind_run,          \* member key -> days 1..n on which a pass left it behind
  reset_seen,          \* some pass so far detected a monthly reset
  last,                \* arguments of the last process_scraped_data call
  kick,                \* members_to_kick of the last completed bomb step
  roster,              \* keys the last pass auto-deactivated, keys it brought back
  call,                \* the last call of a pure function: arguments and result
  sent,                \* messages the last returned scheduled run sent to the report channel
  last_runs,           \* BotTasks.last_runs: the run keys <<club_id, date>> set so far
  now,                 \* time of day (club timezone) of the next firing of the hourly loop
  launched             \* run key -> create_task calls for it, and how the last run ended

tables == <<members, quota_history, bombs, bomb_seq, quota_requirements>>
procs == <<pc, run, started>>
ghosts == <<op, cd_log, behind_run, reset_seen, last, kick, roster, call, sent>>
sched == <<last_runs, now, launched>>
vars == <<clubs, tables, scrape_locks, today, procs, ghosts, sched>>

DB == [members |-> members, quota_history |-> quota_history, bombs |-> bombs,
       bomb_seq |-> bomb_seq, quota_requirements |-> quota_requirements]

SetDB(d) ==
  /\ members' = d.members
  /\ quota_history' = d.quota_history
  /\ bombs' = d.bombs
  /\ bomb_seq' = d.bomb_seq
  /\ quota_requirements' = d.quota_requirements

\* ------------------------------------------------------------------- inputs
Keys == {"m1", "m2"}
Runs == {"s1", "s2", "f1"}
Scheduled == {"s1", "s2"}
TheClub == "c1"

Entry(k, fans, join_day) == [name |-> k, trainer_id |-> k, fans |-> fans, join_day |-> join_day]

MkClub(q, t, cd) == [daily_quota |-> q, bomb_trigger_days |-> t, bomb_countdown_days |-> cd]

IdleRun == [date |-> NoDate, scraped |-> << >>, current_day |-> 0, lock_acquired |-> FALSE,
            todo |-> {}, path |-> "none", members_to_kick |-> {},
            attempt |-> 0, last_error |-> "none", sent |-> {}]

NoLast == [valid |-> FALSE]

NoRoster == [away |-> {}, back |-> {}]

NoCall == [fn |-> "none"]

NoSent == [run |-> NoId, messages |-> {}]

Op(name, r, d) == [name |-> name, run |-> r, date |-> d]

\* decrements a countdown step with current_date = d applies, added to the log
LogCountdown(log, db, d) ==
  LET hit == {<<b.bomb_id, d>> : b \in {x \in Bomb_get_all_active(db) : x.days_remaining > 0}}
  IN [k \in DOMAIN log \cup hit |->
        (IF k \in DOMAIN log THEN log[k] ELSE 0) + (IF k \in hit THEN 1 ELSE 0)]

\* ============================================ one pass per day, sequentially
WouldReset(db, c, scraped_data) ==
  detect_monthly_reset_from_scraped(scraped_data, get_previous_cumulative_totals(db, c))

IsBehindOn(hist, k, d) ==
  \E h \in hist : h.member_id = k /\ h.date = d /\ h.deficit_surplus < 0

SeqParams == {<<1, 1>>, <<2, 2>>, <<3, 7>>}
SeqFans == {0, 1, 4}
SeqScrapes == {("m1" :> Entry("m1", <<f>>, 1)) : f \in SeqFans}
SeqHorizon == clubs[TheClub].bomb_trigger_days + clubs[TheClub].bomb_countdown_days + SeqExtraDays

InitRest ==
  /\ members = << >> /\ quota_history = {} /\ bombs = {} /\ bomb_seq = 0
  /\ quota_requirements = {}
  /\ scrape_locks = << >>
  /\ pc = [r \in Runs |-> "idle"]
  /\ run = [r \in Runs |-> IdleRun]
  /\ started = 0
  /\ op = Op("init", NoId, NoDate)
  /\ cd_log = << >>
  /\ behind_run = [k \in Keys |-> 0]
  /\ reset_seen = FALSE
  /\ last = NoLast
  /\ kick = {}
  /\ roster = NoRoster
  /\ call = NoCall
  /\ sent = NoSent

\* the scheduler has launched nothing; the hourly loop is not looked at
NoSched ==
  /\ last_runs = {}
  /\ now = [hour |-> 0, minute |-> 0, fell_back |-> {}]
  /\ launched = << >>

InitCommon == InitRest /\ NoSched

InitSeq ==
  /\ \E p \in SeqParams : clubs = (TheClub :> MkClub(DEFAULT_DAILY_QUOTA, p[1], p[2]))
  /\ today = 1
  /\ InitCommon

\* STEP 4 and STEP 5 as one step, with what the ghost variables record of it
PassStep(scraped_data, current_date) ==
  LET d1 == process_scraped_data(DB, clubs, TheClub, scraped_data, current_date, 1)
      d2 == check_and_activate_bombs(d1, clubs, TheClub, current_date)
      d3 == update_bomb_countdowns(d2, current_date)
      d4 == check_and_deactivate_bombs(d3, current_date)
  IN /\ SetDB(d4)
     /\ cd_log' = LogCountdown(cd_log, d2, current_date)
     /\ kick' = check_expired_bombs(d4)
     /\ reset_seen' = (reset_seen \/ WouldReset(DB, TheClub, scraped_data))
     /\ last' = [valid |-> TRUE, scraped |-> scraped_data, date |-> current_date,
                 current_day |-> 1]

SeqPass ==
  /\ started = 0
  /\ \E scraped_data \in SeqScrapes : PassStep(scraped_data, today)
  /\ behind_run' = [k \in Keys |->
        IF behind_run[k] = today - 1 /\ IsBehindOn(quota_history', k, today)
          THEN today ELSE behind_run[k]]
  /\ started' = 1
  /\ op' = Op("pass", NoId, today)
  /\ UNCHANGED <<clubs, scrape_locks, today, pc, run, roster, call, sched, sent>>

SeqNextDay ==
  /\ started = 1
  /\ today < SeqHorizon
  /\ today' = today + 1
  /\ started' = 0
  /\ op' = Op("day", NoId, NoDate)
  /\ UNCHANGED <<clubs, tables, scrape_locks, pc, run,
                 cd_log, behind_run, reset_seen, last, kick, roster, call, sched, sent>>

NextSeq == SeqPass \/ SeqNextDay

SpecSeq == InitSeq /\ [][NextSeq]_vars


\* ================================== several passes on one day, each in one step
DayScrapes == {("m1" :> Entry("m1", <<f>>, 1)) : f \in {0, 1, 3}}
DayParams == {<<1, 2>>, <<2, 3>>}
FirstDay == 2

InitDay ==
  /\ \E p \in DayParams : clubs = (TheClub :> MkClub(DEFAULT_DAILY_QUOTA, p[1], p[2]))
  /\ today = FirstDay
  /\ InitCommon

\* a scheduled pass works on the calendar date (tasks.py:193-223), a manual one
\* on the scraper's data date, the day before (admin.py:360-375)
DayPass ==
  /\ started < MaxRuns
  /\ \E kind \in {"scheduled", "manual"}, scraped_data \in DayScrapes :
       LET current_date == IF kind = "scheduled" THEN today ELSE today - 1
       IN /\ PassStep(scraped_data, current_date)
          /\ op' = Op(kind, NoId, current_date)
  /\ started' = started + 1
  /\ UNCHANGED <<clubs, scrape_locks, today, pc, run, behind_run, roster, call, sched, sent>>

DayNextDay ==
  /\ started > 0
  /\ today < MaxDay
  /\ today' = today + 1
  /\ started' = 0
  /\ op' = Op("day", NoId, NoDate)
  /\ UNCHANGED <<clubs, tables, scrape_locks, pc, run,
                 cd_log, behind_run, reset_seen, last, kick, roster, call, sched, sent>>

NextDayPasses == DayPass \/ DayNextDay

SpecDay == InitDay /\ [][NextDayPasses]_vars

\* ======================= process_scraped_data alone, and the same call again
IdemFans == {0, 12}
IdemScrapes == {("m1" :> Entry("m1", <<f>>, 1)) : f \in IdemFans}

InitIdem ==
  /\ clubs = (TheClub :> MkClub(DEFAULT_DAILY_QUOTA, 3, 7))
  /\ today = 1
  /\ InitCommon

IdemPass ==
  /\ started = 0
  /\ \E scraped_data \in IdemScrapes :
       /\ SetDB(process_scraped_data(DB, clubs, TheClub, scraped_data, today, 1))
       /\ last' = [valid |-> TRUE, scraped |-> scraped_data, date |-> today, current_day |-> 1]
  /\ started' = 1
  /\ op' = Op("process", NoId, today)
  /\ UNCHANGED <<clubs, scrape_locks, today, pc, run, cd_log, behind_run, reset_seen, kick,
                 roster, call, sched, sent>>

\* the call of IdemPass repeated with the same arguments, nothing in between
IdemRerun ==
  /\ started = 1
  /\ SetDB(process_scraped_data(DB, clubs, TheClub, last.scraped, last.date, last.current_day))
  /\ started' = 2
  /\ op' = Op("rerun", NoId, last.date)
  /\ UNCHANGED <<clubs, scrape_locks, today, pc, run, cd_log, behind_run, reset_seen, last, kick, roster, call, sched, sent>>

IdemNextDay ==
  /\ started > 0
  /\ today < IdemDays
  /\ today' = today + 1
  /\ started' = 0
  /\ op' = Op("day", NoId, NoDate)
  /\ UNCHANGED <<clubs, tables, scrape_locks, pc, run,
                 cd_log, behind_run, reset_seen, last, kick, roster, call, sched, sent>>

NextIdem == IdemPass \/ IdemRerun \/ IdemNextDay

SpecIdem == InitIdem /\ [][NextIdem]_vars

\* ======================================================== scrape lock manager
\* _cleanup_stale_locks deleting a row from the moment it is 30 minutes old
cleanup_stale_locks_eager(locks) ==
  LET keep == {c \in DOMAIN locks : locks[c].age < LOCK_TIMEOUT_MINUTES}
  IN [c \in keep |-> locks[c]]

\* acquire_lock without the purge of stale rows
cleanup_stale_locks_none(locks) == locks

\* ScrapeLockManager._cleanup_stale_locks: DELETE ... WHERE locked_at < now - 30 min
cleanup_stale_locks(locks) ==
  LET keep == {c \in DOMAIN locks : locks[c].age <= LOCK_TIMEOUT_MINUTES}
  IN [c \in keep |-> locks[c]]

\* acquire_lock deleting the row it ran into
acquire_lock_drop(locks, c, locked_by) ==
  LET cleaned == cleanup_stale_locks(locks)
  IN IF c \in DOMAIN cleaned
       THEN [ok |-> FALSE, locks |-> [k \in DOMAIN cleaned \ {c} |-> cleaned[k]]]
       ELSE [ok |-> TRUE, locks |-> (c :> [locked_by |-> locked_by, age |-> 0]) @@ cleaned]

\* ScrapeLockManager.acquire_lock: cleanup, then INSERT ... ON CONFLICT DO NOTHING
acquire_lock(locks, c, locked_by) ==
  LET cleaned == cleanup_stale_locks(locks)
  IN IF c \in DOMAIN cleaned
       THEN [ok |-> FALSE, locks |-> cleaned]
       ELSE [ok |-> TRUE, locks |-> (c :> [locked_by |-> locked_by, age |-> 0]) @@ cleaned]

\* ScrapeLockManager.release_lock: DELETE ... WHERE club_id = c
release_lock(locks, c) == [k \in DOMAIN locks \ {c} |-> locks[k]]

\* __aexit__ releasing only when the block ended without an exception
ScrapeContext_aexit_onsuccess(locks, c, lock_acquired, raised) ==
  IF lock_acquired /\ ~raised THEN release_lock(locks, c) ELSE locks

\* ScrapeContext.__aexit__
ScrapeContext_aexit(locks, c, lock_acquired, raised) ==
  IF lock_acquired THEN release_lock(locks, c) ELSE locks

\* ============================================================ pipeline runs
TickMinutes == 15
MainParams == {<<1, 2>>}
LockParams == {<<1, 2>>, <<2, 1>>}
MainFans == {0, 2, 5}
MainScrapes == {("m1" :> Entry("m1", <<f>>, 1)) : f \in MainFans}

\* scraped data of a club with two members, one or both of them present
RosterFans == {1, 3}
RosterScrapes ==
  UNION {{[k \in S |-> Entry(k, <<f[k]>>, 1)] : f \in [S -> RosterFans]} :
           S \in (SUBSET Keys) \ {{}}}

\* STEP 3: the error report and the call for manual intervention
ScrapeFailedMessages == {"error_report", "manual_intervention"}

BombPcs == {"activate", "act_check", "act_create", "countdown", "deactivate", "expired"}
WritePcs == {"process"} \cup BombPcs
ContextPcs == {"scrape", "report", "aexit"} \cup WritePcs

Goto(r, where) == pc' = [pc EXCEPT ![r] = where]

\* a run returns: its locals are gone
Return(r) ==
  /\ pc' = [pc EXCEPT ![r] = "idle"]
  /\ run' = [run EXCEPT ![r] = IdleRun]

\* a scheduled run leaves the "async with" block, having sent the messages to
\* the report channel; a manual run (which answers the interaction) returns
Leave(r, path, messages) ==
  IF r \in Scheduled
    THEN /\ pc' = [pc EXCEPT ![r] = "aexit"]
         /\ run' = [run EXCEPT ![r].path = path, ![r].sent = @ \cup messages]
    ELSE Return(r)

Init ==
  /\ \E p \in MainParams : clubs = (TheClub :> MkClub(DEFAULT_DAILY_QUOTA, p[1], p[2]))
  /\ today = FirstDay
  /\ InitCommon

\* daily_check_for_club from ScrapeContext.__aenter__ to the scraper selection
\* (tasks.py:93-148); no await separates the acquisition from the checks.
\* When acquire_lock returns False, __aenter__ raises, the block is not entered
\* and the handler at tasks.py:313-325 sends an error report if the club's
\* report channel exists; the run has then returned.
\* s2 stands for a second trigger, so it starts only while s1 is running.
\* budget bounds the number of runs started.
SchedEnterUpTo(r, budget) ==
  /\ r \in Scheduled
  /\ pc[r] = "idle"
  /\ r = "s2" => pc["s1"] # "idle"
  /\ started < budget
  /\ started' = started + 1
  /\ LET res == acquire_lock(scrape_locks, TheClub, r)
     IN /\ scrape_locks' = res.locks
        /\ IF res.ok
             THEN /\ \E outcome \in {"ok", "no_channel", "circle_id"} :
                       /\ pc' = [pc EXCEPT ![r] = IF outcome = "ok" THEN "scrape" ELSE "aexit"]
                       /\ run' = [run EXCEPT
                            ![r].lock_acquired = TRUE,
                            ![r].date = today,
                            ![r].path = IF outcome = "ok" THEN "none" ELSE outcome,
                            ![r].sent = IF outcome = "circle_id" THEN {"error_report"} ELSE {}]
                  /\ UNCHANGED <<op, sent>>
             ELSE /\ \E report_channel \in BOOLEAN :
                       sent' = [run |-> r,
                                messages |-> IF report_channel THEN {"error_report"} ELSE {}]
                  /\ op' = Op("lock_busy", r, today)
                  /\ UNCHANGED <<pc, run>>
  /\ UNCHANGED <<clubs, tables, today, cd_log, behind_run, reset_seen, last, kick, roster, call, sched>>

SchedEnter(r) == SchedEnterUpTo(r, MaxRuns)

\* force_check up to the scrape loop (admin.py:273-335); it takes no lock
ForceStartUpTo(r, budget) ==
  /\ r \notin Scheduled
  /\ pc[r] = "idle"
  /\ started < budget
  /\ started' = started + 1
  /\ pc' = [pc EXCEPT ![r] = "scrape"]
  /\ run' = [run EXCEPT ![r].date = today]
  /\ UNCHANGED <<clubs, tables, scrape_locks, today, ghosts, sched>>

ForceStart(r) == ForceStartUpTo(r, MaxRuns)

\* the retry loop (tasks.py:151-191, admin.py:337-354): some attempt returns
\* data, or all max_retries attempts fail; a manual run then takes the
\* scraper's data date (admin.py:360-363)
Scrape(r) ==
  /\ pc[r] = "scrape"
  /\ \/ \E scraped_data \in MainScrapes :
          /\ pc' = [pc EXCEPT ![r] = "process"]
          /\ run' = [run EXCEPT ![r].scraped = scraped_data, ![r].current_day = 1,
                                ![r].date = IF r \in Scheduled THEN @ ELSE today - 1]
     \/ Leave(r, "scrape_failed", ScrapeFailedMessages)
  /\ UNCHANGED <<clubs, tables, scrape_locks, today, started, ghosts, sched>>

\* STEP 4: process_scraped_data, or an exception out of it: before its first
\* write, or out of the member loop with some of the entries done
Process(r) ==
  /\ pc[r] = "process"
  /\ \/ /\ SetDB(process_scraped_data(DB, clubs, TheClub, run[r].scraped,
                                      run[r].date, run[r].current_day))
        /\ Goto(r, "activate")
        /\ UNCHANGED run
     \/ /\ Leave(r, "process_error", {"error_report"})
        /\ UNCHANGED tables
     \/ /\ \E done \in (SUBSET DOMAIN run[r].scraped) \ {DOMAIN run[r].scraped} :
             SetDB(process_scraped_data_raised(DB, clubs, TheClub, run[r].scraped, done,
                                               run[r].date, run[r].current_day))
        /\ Leave(r, "entry_error", {"error_report"})
  /\ UNCHANGED <<clubs, scrape_locks, today, started, ghosts, sched>>

\* check_and_activate_bombs: the member list (bomb_manager.py:29)
ActStart(r) ==
  /\ pc[r] = "activate"
  /\ run' = [run EXCEPT ![r].todo = get_all_active(DB, TheClub)]
  /\ Goto(r, "act_check")
  /\ UNCHANGED <<clubs, tables, scrape_locks, today, started, ghosts, sched>>

\* the reads for the next member (bomb_manager.py:33-41)
ActCheck(r) ==
  /\ pc[r] = "act_check"
  /\ IF run[r].todo = {}
       THEN Goto(r, "countdown") /\ UNCHANGED run
       ELSE LET m == CHOOSE x \in run[r].todo : TRUE
            IN IF ShouldActivate(DB, clubs, TheClub, m)
                 THEN Goto(r, "act_create") /\ UNCHANGED run
                 ELSE run' = [run EXCEPT ![r].todo = @ \ {m}] /\ UNCHANGED pc
  /\ UNCHANGED <<clubs, tables, scrape_locks, today, started, ghosts, sched>>

\* the insert for that member (bomb_manager.py:42-48)
ActCreate(r) ==
  /\ pc[r] = "act_create"
  /\ LET m == CHOOSE x \in run[r].todo : TRUE
     IN /\ SetDB(Bomb_create(DB, m, run[r].date, clubs[TheClub].bomb_countdown_days))
        /\ run' = [run EXCEPT ![r].todo = @ \ {m}]
  /\ Goto(r, "act_check")
  /\ UNCHANGED <<clubs, scrape_locks, today, started, ghosts, sched>>

Countdown(r) ==
  /\ pc[r] = "countdown"
  /\ SetDB(update_bomb_countdowns(DB, run[r].date))
  /\ Goto(r, "deactivate")
  /\ UNCHANGED <<clubs, scrape_locks, today, run, started, ghosts, sched>>

Deactivate(r) ==
  /\ pc[r] = "deactivate"
  /\ SetDB(check_and_deactivate_bombs(DB, run[r].date))
  /\ Goto(r, "expired")
  /\ UNCHANGED <<clubs, scrape_locks, today, run, started, ghosts, sched>>

Expired(r) ==
  /\ pc[r] = "expired"
  /\ run' = [run EXCEPT ![r].members_to_kick = check_expired_bombs(DB)]
  /\ Goto(r, "report")
  /\ UNCHANGED <<clubs, tables, scrape_locks, today, started, ghosts, sched>>

\* an exception inside STEP 5: caught in daily_check_for_club (tasks.py:228-232),
\* not in force_check
BombError(r) ==
  /\ pc[r] \in BombPcs
  /\ IF r \in Scheduled
       THEN Goto(r, "report") /\ run' = [run EXCEPT ![r].path = "bomb_error"]
       ELSE Return(r)
  /\ UNCHANGED <<clubs, tables, scrape_locks, today, started, ghosts, sched>>

\* STEP 6-9: notifications and reports.  The reports are sent (a failure to make
\* the daily report is answered with an error report in its place, tasks.py:275-281,
\* which is not told apart here); or a send in that handler raises and the
\* exception leaves the block
Report(r) ==
  /\ pc[r] = "report"
  /\ \E outcome \in {"normal", "report_error"} :
       Leave(r, IF run[r].path = "bomb_error" /\ outcome = "normal"
                  THEN "bomb_error" ELSE outcome,
             IF outcome = "normal" THEN {"daily_report"} ELSE {})
  /\ UNCHANGED <<clubs, tables, scrape_locks, today, started, ghosts, sched>>

\* ScrapeContext.__aexit__, then daily_check_for_club returns (after an exception,
\* through the handler at tasks.py:313-325, whose error report may not get
\* through); op keeps the exit path, sent the messages of the run
AExit(r) ==
  /\ pc[r] = "aexit"
  /\ scrape_locks' = ScrapeContext_aexit(scrape_locks, TheClub, run[r].lock_acquired,
                                         run[r].path = "report_error")
  /\ op' = Op(run[r].path, r, run[r].date)
  /\ \E delivered \in BOOLEAN :
       /\ delivered => run[r].path = "report_error"
       /\ sent' = [run |-> r,
                   messages |-> run[r].sent \cup (IF delivered THEN {"error_report"} ELSE {})]
  /\ Return(r)
  /\ UNCHANGED <<clubs, tables, today, started, cd_log, behind_run, reset_seen, last, kick,
                 roster, call, sched>>

\* /deactivate_member and /activate_member (admin.py:463-549)
DeactivateMember(m) ==
  /\ m \in DOMAIN members
  /\ members[m].is_active
  /\ SetDB(Member_deactivate(DB, m, TRUE))
  /\ UNCHANGED <<clubs, scrape_locks, today, procs, ghosts, sched>>

ActivateMember(m) ==
  /\ m \in DOMAIN members
  /\ ~members[m].is_active
  /\ SetDB(Member_activate(DB, m))
  /\ UNCHANGED <<clubs, scrape_locks, today, procs, ghosts, sched>>

\* time passes: every lock row gets older
Tick ==
  /\ \E c \in DOMAIN scrape_locks : scrape_locks[c].age <= LOCK_TIMEOUT_MINUTES
  /\ scrape_locks' = [c \in DOMAIN scrape_locks |->
        [scrape_locks[c] EXCEPT !.age = IF @ <= LOCK_TIMEOUT_MINUTES THEN @ + TickMinutes ELSE @]]
  /\ UNCHANGED <<clubs, tables, today, procs, ghosts, sched>>

\* midnight, between the runs of two days
NextDay ==
  /\ today < MaxDay
  /\ \A r \in Runs : pc[r] = "idle"
  /\ today' = today + 1
  /\ UNCHANGED <<clubs, tables, scrape_locks, procs, ghosts, sched>>

\* one scheduled trigger, manual checks and the admin commands, over the days
MainRuns == {"s1", "f1"}

Next ==
  \/ \E r \in MainRuns : SchedEnter(r)
  \/ \E r \in MainRuns : ForceStart(r)
  \/ \E r \in MainRuns : Scrape(r)
  \/ \E r \in MainRuns : Process(r)
  \/ \E r \in MainRuns : ActStart(r)
  \/ \E r \in MainRuns : ActCheck(r)
  \/ \E r \in MainRuns : ActCreate(r)
  \/ \E r \in MainRuns : Countdown(r)
  \/ \E r \in MainRuns : Deactivate(r)
  \/ \E r \in MainRuns : Expired(r)
  \/ \E r \in MainRuns : BombError(r)
  \/ \E r \in MainRuns : Report(r)
  \/ \E r \in MainRuns : AExit(r)
  \/ \E m \in Keys : DeactivateMember(m)
  \/ \E m \in Keys : ActivateMember(m)
  \/ NextDay

Spec == Init /\ [][Next]_vars

\* two scheduled triggers for the same club on one day, while time passes
NextLock ==
  \/ \E r \in Scheduled : SchedEnter(r)
  \/ \E r \in Scheduled : Scrape(r)
  \/ \E r \in Scheduled : Process(r)
  \/ \E r \in Scheduled : ActStart(r)
  \/ \E r \in Scheduled : ActCheck(r)
  \/ \E r \in Scheduled : ActCreate(r)
  \/ \E r \in Scheduled : Countdown(r)
  \/ \E r \in Scheduled : Deactivate(r)
  \/ \E r \in Scheduled : Expired(r)
  \/ \E r \in Scheduled : BombError(r)
  \/ \E r \in Scheduled : Report(r)
  \/ \E r \in Scheduled : AExit(r)
  \/ Tick

InitLock ==
  /\ \E p \in LockParams : clubs = (TheClub :> MkClub(DEFAULT_DAILY_QUOTA, p[1], p[2]))
  /\ today = FirstDay
  /\ InitCommon

SpecLock == InitLock /\ [][NextLock]_vars

\* =========== one scheduled run at a time, the retry loop one attempt at a step
\* the loop going on for max_retries + 1 attempts
MoreAttempts_upto(attempt) == attempt <= max_retries

\* for attempt in range(1, max_retries + 1): another attempt follows this one
MoreAttempts(attempt) == attempt < max_retries

\* one iteration of the retry loop (tasks.py:151-170) and, after the last one,
\* STEP 3.  scraper.scrape() returns data, returns an empty result (for which
\* the loop raises ValueError itself) or raises; scraped_data stays empty on
\* both failures.
ScrapeAttempt(r) ==
  /\ r \in Scheduled
  /\ pc[r] = "scrape"
  /\ LET attempt == run[r].attempt + 1
     IN \/ \E scraped_data \in RosterScrapes :
             /\ pc' = [pc EXCEPT ![r] = "process"]
             /\ run' = [run EXCEPT ![r].attempt = attempt, ![r].scraped = scraped_data,
                                   ![r].current_day = 1]
        \/ \E last_error \in {"empty_data", "scrape_exception"} :
             IF MoreAttempts(attempt)
               THEN /\ run' = [run EXCEPT ![r].attempt = attempt, ![r].last_error = last_error]
                    /\ UNCHANGED pc
               ELSE /\ pc' = [pc EXCEPT ![r] = "aexit"]
                    /\ run' = [run EXCEPT ![r].attempt = attempt, ![r].last_error = last_error,
                                          ![r].path = "scrape_failed",
                                          ![r].sent = @ \cup ScrapeFailedMessages]
  /\ UNCHANGED <<clubs, tables, scrape_locks, today, started, ghosts, sched>>

NextRun ==
  \/ SchedEnter("s1")
  \/ ScrapeAttempt("s1")
  \/ Process("s1")
  \/ ActStart("s1")
  \/ ActCheck("s1")
  \/ ActCreate("s1")
  \/ Countdown("s1")
  \/ Deactivate("s1")
  \/ Expired("s1")
  \/ BombError("s1")
  \/ Report("s1")
  \/ AExit("s1")
  \/ NextDay

SpecRun == Init /\ [][NextRun]_vars

\* ============ runs that die inside the "async with" block, and later triggers
CrashRuns == 4

\* the bot process is killed while a run is inside the block: __aexit__ never
\* runs, the lock row stays, the run's locals are gone
Crash(r) ==
  /\ r \in Scheduled
  /\ pc[r] \in ContextPcs
  /\ pc' = [pc EXCEPT ![r] = "crashed"]
  /\ run' = [run EXCEPT ![r] = IdleRun]
  /\ op' = Op("crash", r, today)
  /\ UNCHANGED <<clubs, tables, scrape_locks, today, started,
                 cd_log, behind_run, reset_seen, last, kick, roster, call, sched, sent>>

\* triggers for one club; a run that got data dies no later than STEP 4
NextCrash ==
  \/ \E r \in Scheduled : SchedEnterUpTo(r, CrashRuns)
  \/ \E r \in Scheduled : Scrape(r)
  \/ \E r \in Scheduled : Crash(r)
  \/ \E r \in Scheduled : AExit(r)
  \/ Tick

SpecCrash == InitLock /\ [][NextCrash]_vars

\* ============================ one pass per day over a roster that changes
InitRoster ==
  /\ \E p \in MainParams : clubs = (TheClub :> MkClub(DEFAULT_DAILY_QUOTA, p[1], p[2]))
  /\ today = 1
  /\ InitCommon

\* STEP 4 and STEP 5 of the day's pass; roster keeps who left and who came back
RosterPass ==
  /\ started = 0
  /\ \E scraped_data \in RosterScrapes :
       /\ PassStep(scraped_data, today)
       /\ roster' =
            [away |-> {m \in DOMAIN members :
                         /\ members[m].is_active
                         /\ MemberKey(members[m]) \notin DOMAIN scraped_data},
             back |-> {m \in roster.away :
                         /\ ~members[m].is_active /\ ~members[m].manually_deactivated
                         /\ MemberKey(members[m]) \in DOMAIN scraped_data}]
  /\ started' = 1
  /\ op' = Op("pass", NoId, today)
  /\ UNCHANGED <<clubs, scrape_locks, today, pc, run, behind_run, call, sched, sent>>

RosterNextDay ==
  /\ started = 1
  /\ today < MaxDay
  /\ today' = today + 1
  /\ started' = 0
  /\ op' = Op("day", NoId, NoDate)
  /\ UNCHANGED <<clubs, tables, scrape_locks, pc, run,
                 cd_log, behind_run, reset_seen, last, kick, roster, call, sched, sent>>

NextRoster ==
  \/ RosterPass
  \/ RosterNextDay
  \/ \E m \in Keys : DeactivateMember(m)
  \/ \E m \in Keys : ActivateMember(m)

SpecRoster == InitRoster /\ [][NextRoster]_vars

\* =================== _detect_monthly_reset_from_scraped applied to its inputs
ResetFanLists == {<< >>, <<0>>, <<1>>, <<2>>, <<4, 1>>, <<1, 3>>}
ResetPrevious == {0, 2, 3, 4, 5}
ResetScrapes ==
  UNION {{[k \in S |-> Entry(k, f[k], 1)] : f \in [S -> ResetFanLists]} : S \in SUBSET Keys}
ResetTotals == UNION {[S -> ResetPrevious] : S \in SUBSET Keys}

InitReset ==
  /\ clubs = (TheClub :> MkClub(DEFAULT_DAILY_QUOTA, 1, 2))
  /\ today = 1
  /\ InitCommon

\* one call, on any pair of arguments
DetectReset ==
  /\ call = NoCall
  /\ \E scraped_data \in ResetScrapes, previous_totals \in ResetTotals :
       call' = [fn |-> "detect_monthly_reset_from_scraped",
                scraped_data |-> scraped_data, previous_totals |-> previous_totals,
                result |-> detect_monthly_reset_from_scraped(scraped_data, previous_totals)]
  /\ UNCHANGED <<clubs, tables, scrape_locks, today, procs,
                 op, cd_log, behind_run, reset_seen, last, kick, roster, sent, sched>>

SpecReset == InitReset /\ [][DetectReset]_vars

\* ============ /quota commands over a month, and calculate_expected_fans applied
QuotaDays == 20
QuotaDefaults == {1, 3}
QuotaAmounts == {2, 3}
QuotaAdmins == {"a1", "a2"}

\* join dates asked about: one in the month before, days 1 and 5, and today
JoinDates(current_date) ==
  {MkDate(MonthOf(current_date) - 1, 25)}
    \cup {d \in {FirstOfMonth(current_date), FirstOfMonth(current_date) + 4, current_date} :
            d <= current_date}

InitQuota ==
  /\ \E q \in QuotaDefaults : clubs = (TheClub :> MkClub(q, 1, 2))
  /\ today = 1
  /\ InitCommon

\* /quota (admin.py:68-143): amounts 0..10,000,000 are accepted; the row is
\* effective from the club's current date.  Each admin sets the quota once.
SetQuota ==
  /\ call = NoCall
  /\ \E set_by \in QuotaAdmins, amount \in QuotaAmounts :
       /\ \A r \in quota_requirements : r.set_by # set_by
       /\ SetDB(QuotaRequirement_create(DB, TheClub, today, amount, set_by))
  /\ UNCHANGED <<clubs, scrape_locks, today, procs, ghosts, sched>>

QuotaNextDay ==
  /\ call = NoCall
  /\ today < QuotaDays
  /\ today' = today + 1
  /\ UNCHANGED <<clubs, tables, scrape_locks, procs, ghosts, sched>>

\* one call of calculate_expected_fans with current_date = today
CalcExpected ==
  /\ call = NoCall
  /\ \E member_join_date \in JoinDates(today) :
       \E result \in ExpectedOutcomes(DB, clubs, TheClub, member_join_date, today) :
         call' = [fn |-> "calculate_expected_fans", member_join_date |-> member_join_date,
                  current_date |-> today, result |-> result]
  /\ UNCHANGED <<clubs, tables, scrape_locks, today, procs,
                 op, cd_log, behind_run, reset_seen, last, kick, roster, sent, sched>>

NextQuota == SetQuota \/ QuotaNextDay \/ CalcExpected

SpecQuota == InitQuota /\ [][NextQuota]_vars

\* ================= the passes of one club while another club has rows as well
OtherClub == "c2"

EmptyDB == [members |-> << >>, quota_history |-> {}, bombs |-> {}, bomb_seq |-> 0,
            quota_requirements |-> {}]

\* the tables after the first day of the other club: its member o1, who has the
\* trainer id m1, was recorded with no fans and got a bomb, and an admin of that
\* club set a quota
OtherClubRows ==
  LET d1 == Member_create(EmptyDB, "o1", OtherClub, "m1", 1, "m1")
      d2 == WriteLedger(d1, clubs, OtherClub, "o1", 0, 1)
      d3 == check_and_activate_bombs(d2, clubs, OtherClub, 1)
      d4 == update_bomb_countdowns(d3, 1)
      d5 == check_and_deactivate_bombs(d4, 1)
  IN QuotaRequirement_create(d5, OtherClub, 1, 2, "a9")

InitClubs ==
  /\ clubs = (TheClub :> MkClub(DEFAULT_DAILY_QUOTA, 1, 2))
               @@ (OtherClub :> MkClub(DEFAULT_DAILY_QUOTA, 1, 2))
  /\ today = 1
  /\ members = OtherClubRows.members
  /\ quota_history = OtherClubRows.quota_history
  /\ bombs = OtherClubRows.bombs
  /\ bomb_seq = OtherClubRows.bomb_seq
  /\ quota_requirements = OtherClubRows.quota_requirements
  /\ scrape_locks = << >>
  /\ pc = [r \in Runs |-> "idle"]
  /\ run = [r \in Runs |-> IdleRun]
  /\ started = 0
  /\ op = Op("init", NoId, NoDate)
  /\ cd_log = << >>
  /\ behind_run = [k \in Keys |-> 0]
  /\ reset_seen = FALSE
  /\ last = NoLast
  /\ kick = {}
  /\ roster = NoRoster
  /\ call = NoCall
  /\ sent = NoSent
  /\ NoSched

\* rows of club c in the tables: ledger rows, bombs, schedule rows
ClubRowCount(db, c) ==
  [quota_history |-> Cardinality({h \in db.quota_history : h.club_id = c}),
   bombs |-> Cardinality({b \in db.bombs : db.members[b.member_id].club_id = c}),
   quota_requirements |-> Cardinality({q \in db.quota_requirements : q.club_id = c})]

\* STEP 4 of the day's pass for TheClub; last keeps whether the call detected a
\* reset and how many rows the club had before it
ClubProcess ==
  /\ started = 0
  /\ \E scraped_data \in RosterScrapes :
       /\ SetDB(process_scraped_data(DB, clubs, TheClub, scraped_data, today, 1))
       /\ last' = [valid |-> TRUE, scraped |-> scraped_data, date |-> today, current_day |-> 1,
                   reset |-> WouldReset(DB, TheClub, scraped_data),
                   before |-> ClubRowCount(DB, TheClub)]
  /\ started' = 1
  /\ op' = Op("process", NoId, today)
  /\ UNCHANGED <<clubs, scrape_locks, today, pc, run, cd_log, behind_run, reset_seen, kick,
                 roster, call, sched, sent>>

\* STEP 5 of that pass
ClubBombs ==
  /\ started = 1
  /\ LET d2 == check_and_activate_bombs(DB, clubs, TheClub, today)
         d3 == update_bomb_countdowns(d2, today)
         d4 == check_and_deactivate_bombs(d3, today)
     IN SetDB(d4) /\ kick' = check_expired_bombs(d4)
  /\ started' = 2
  /\ op' = Op("bombs", NoId, today)
  /\ UNCHANGED <<clubs, scrape_locks, today, pc, run, cd_log, behind_run, reset_seen, last,
                 roster, call, sched, sent>>

ClubNextDay ==
  /\ started = 2
  /\ today < MaxDay
  /\ today' = today + 1
  /\ started' = 0
  /\ op' = Op("day", NoId, NoDate)
  /\ UNCHANGED <<clubs, tables, scrape_locks, pc, run,
                 cd_log, behind_run, reset_seen, last, kick, roster, call, sched, sent>>

\* /quota of an admin of TheClub, between two passes
ClubSetQuota ==
  /\ started = 0
  /\ \E set_by \in QuotaAdmins, amount \in QuotaAmounts :
       /\ \A r \in quota_requirements : r.set_by # set_by
       /\ SetDB(QuotaRequirement_create(DB, TheClub, today, amount, set_by))
  /\ UNCHANGED <<clubs, scrape_locks, today, procs, ghosts, sched>>

NextClubs == ClubProcess \/ ClubBombs \/ ClubNextDay \/ ClubSetQuota

SpecClubs == InitClubs /\ [][NextClubs]_vars

\* ================== one pass per day while a member changes the trainer name
NameNames == {"m1", "m1_renamed"}
NameFans == {1, 3}
NameScrapes ==
  {("m1" :> [name |-> n, trainer_id |-> "m1", fans |-> <<f>>, join_day |-> 1]) :
     n \in NameNames, f \in NameFans}

NamePass ==
  /\ started = 0
  /\ \E scraped_data \in NameScrapes : PassStep(scraped_data, today)
  /\ started' = 1
  /\ op' = Op("pass", NoId, today)
  /\ UNCHANGED <<clubs, scrape_locks, today, pc, run, behind_run, roster, call, sched, sent>>

NextNames ==
  \/ NamePass
  \/ RosterNextDay
  \/ \E m \in Keys : DeactivateMember(m)
  \/ \E m \in Keys : ActivateMember(m)

SpecNames == InitRoster /\ [][NextNames]_vars

\* ======== one pass per day, each call of the pass a step, and the member commands
BombFans == {0, 2}
BombScrapes == {("m1" :> Entry("m1", <<f>>, 1)) : f \in BombFans}

\* started counts the calls of the day's pass that have returned
BombStage(n, next_op, d) ==
  /\ started = n
  /\ SetDB(d)
  /\ started' = n + 1
  /\ op' = Op(next_op, NoId, today)
  /\ UNCHANGED <<clubs, scrape_locks, today, pc, run, cd_log, behind_run, reset_seen,
                 roster, call, sched, sent>>

BProcess ==
  /\ \E scraped_data \in BombScrapes :
       /\ BombStage(0, "process", process_scraped_data(DB, clubs, TheClub, scraped_data, today, 1))
       /\ last' = [valid |-> TRUE, scraped |-> scraped_data, date |-> today, current_day |-> 1]
  /\ UNCHANGED kick

BActivate ==
  /\ BombStage(1, "activate", check_and_activate_bombs(DB, clubs, TheClub, today))
  /\ UNCHANGED <<last, kick>>

BCountdown ==
  /\ BombStage(2, "countdown", update_bomb_countdowns(DB, today))
  /\ UNCHANGED <<last, kick>>

BDeactivate ==
  /\ BombStage(3, "deactivate", check_and_deactivate_bombs(DB, today))
  /\ UNCHANGED <<last, kick>>

\* check_expired_bombs: it only reads; kick keeps the list it returns
BExpired ==
  /\ BombStage(4, "expired", check_expired_bombs_writes(DB))
  /\ kick' = check_expired_bombs(DB)
  /\ UNCHANGED last

BNextDay ==
  /\ started = 5
  /\ today < MaxDay
  /\ today' = today + 1
  /\ started' = 0
  /\ op' = Op("day", NoId, NoDate)
  /\ UNCHANGED <<clubs, tables, scrape_locks, pc, run,
                 cd_log, behind_run, reset_seen, last, kick, roster, call, sched, sent>>

\* the member commands leave op as it is: it names the last call of the pass
NextBombs ==
  \/ BProcess \/ BActivate \/ BCountdown \/ BDeactivate \/ BExpired \/ BNextDay
  \/ \E m \in Keys : DeactivateMember(m)
  \/ \E m \in Keys : ActivateMember(m)

InitBombs ==
  /\ \E p \in LockParams : clubs = (TheClub :> MkClub(DEFAULT_DAILY_QUOTA, p[1], p[2]))
  /\ today = 1
  /\ InitCommon

SpecBombs == InitBombs /\ [][NextBombs]_vars

\* ===== a scheduled and manual runs of one day, update_bomb_countdowns by its awaits
CountdownRuns == 3

\* update_bomb_countdowns: active_bombs = await Bomb.get_all_active(...); the
\* run keeps the rows it read
CdLoad(r) ==
  /\ pc[r] = "countdown"
  /\ run' = [run EXCEPT ![r].todo = Bomb_get_all_active(DB)]
  /\ Goto(r, "cd_write")
  /\ UNCHANGED <<clubs, tables, scrape_locks, today, started, ghosts, sched>>

\* the UPDATE of Bomb.decrement_days for a bomb object b read earlier:
\* SET days_remaining = b.days_remaining - 1 WHERE bomb_id = b.bomb_id
Bomb_decrement_days_write(db, b) ==
  IF b.days_remaining > 0
    THEN [db EXCEPT !.bombs = {IF x.bomb_id = b.bomb_id
                                 THEN [x EXCEPT !.days_remaining = b.days_remaining - 1]
                                 ELSE x : x \in db.bombs}]
    ELSE db

\* one iteration of "for bomb in active_bombs: await bomb.decrement_days(...)"
CdWrite(r) ==
  /\ pc[r] = "cd_write"
  /\ IF run[r].todo = {}
       THEN Goto(r, "deactivate") /\ UNCHANGED <<run, tables>>
       ELSE LET b == CHOOSE x \in run[r].todo : TRUE
            IN /\ SetDB(Bomb_decrement_days_write(DB, b))
               /\ run' = [run EXCEPT ![r].todo = @ \ {b}]
               /\ UNCHANGED pc
  /\ UNCHANGED <<clubs, scrape_locks, today, started, ghosts, sched>>

NextCountdown ==
  \/ \E r \in MainRuns : SchedEnterUpTo(r, CountdownRuns)
  \/ \E r \in MainRuns : ForceStartUpTo(r, CountdownRuns)
  \/ \E r \in MainRuns : Scrape(r)
  \/ \E r \in MainRuns : Process(r)
  \/ \E r \in MainRuns : ActStart(r)
  \/ \E r \in MainRuns : ActCheck(r)
  \/ \E r \in MainRuns : ActCreate(r)
  \/ \E r \in MainRuns : CdLoad(r)
  \/ \E r \in MainRuns : CdWrite(r)
  \/ \E r \in MainRuns : Deactivate(r)
  \/ \E r \in MainRuns : Expired(r)
  \/ \E r \in MainRuns : Report(r)
  \/ \E r \in MainRuns : AExit(r)

SpecCountdown == Init /\ [][NextCountdown]_vars

\* ============================================ the club commands of an admin
ClubNames == {"c1", "c2"}
\* an optional argument is << >> when not given (None) and <<v>> when given
NoArg == << >>
Optional(S) == {NoArg} \cup {<<v>> : v \in S}
DayArgs == {-1, 0, 1, 2}
QuotaArgs == {1, 2}
DEFAULT_TRIGGER_DAYS == 3
DEFAULT_COUNTDOWN_DAYS == 7

\* Club.create as add_club calls it: the bomb settings take the defaults of the
\* signature
Club_create(clubs_, c, daily_quota) ==
  [x \in DOMAIN clubs_ \cup {c} |->
     IF x = c THEN MkClub(daily_quota, DEFAULT_TRIGGER_DAYS, DEFAULT_COUNTDOWN_DAYS)
     ELSE clubs_[x]]

\* Club.update_settings: SET k = v for every k of updates, nothing else
Club_update_settings(clubs_, c, updates) ==
  IF DOMAIN updates = {} THEN clubs_
  ELSE [clubs_ EXCEPT ![c] = [f \in DOMAIN clubs_[c] |->
          IF f \in DOMAIN updates THEN updates[f] ELSE clubs_[c][f]]]

\* the updates edit_club collects: one entry for each argument that is not None
EditUpdates(daily_quota, bomb_trigger_days, bomb_countdown_days) ==
  LET given == [daily_quota |-> daily_quota, bomb_trigger_days |-> bomb_trigger_days,
                bomb_countdown_days |-> bomb_countdown_days]
      set == {f \in DOMAIN given : given[f] # NoArg}
  IN [f \in set |-> given[f][1]]

\* /add_club: refused when the name is taken
add_club(c, daily_quota) ==
  /\ c \notin DOMAIN clubs
  /\ clubs' = Club_create(clubs, c, daily_quota)
  /\ op' = Op("add_club", NoId, today)
  /\ UNCHANGED <<tables, scrape_locks, today, procs, cd_log, behind_run, reset_seen,
                 last, kick, roster, call, sched, sent>>

\* /edit_club: refused when the club is not there or no argument is given
edit_club(c, daily_quota, bomb_trigger_days, bomb_countdown_days) ==
  LET updates == EditUpdates(daily_quota, bomb_trigger_days, bomb_countdown_days)
  IN /\ c \in DOMAIN clubs
     /\ DOMAIN updates # {}
     /\ clubs' = Club_update_settings(clubs, c, updates)
     /\ op' = Op("edit_club", NoId, today)
     /\ UNCHANGED <<tables, scrape_locks, today, procs, cd_log, behind_run, reset_seen,
                    last, kick, roster, call, sched, sent>>

NextSettings ==
  \/ \E c \in ClubNames, q \in QuotaArgs : add_club(c, q)
  \/ \E c \in ClubNames, q \in Optional(QuotaArgs),
        t \in Optional(DayArgs), cd \in Optional(DayArgs) : edit_club(c, q, t, cd)

InitSettings ==
  /\ clubs = << >>
  /\ today = 1
  /\ InitCommon

SpecSettings == InitSettings /\ [][NextSettings]_vars

\* ====== one process_scraped_data call per day, over fan lists and day numbers
MaxFansLen == 3
EntryFans == {-1, 0, 2}
EntryFanLists == UNION {[1..n -> EntryFans] : n \in 1..MaxFansLen}
EntryDays == 1..(MaxFansLen + 1)

\* line 212 raises IndexError for some entry of the scrape
IndexRaises(scraped_data, current_day) ==
  \E k \in DOMAIN scraped_data :
    /\ scraped_data[k].fans # << >>
    /\ ~PyIndexInRange(scraped_data[k].fans,
                       current_day_index(scraped_data[k].fans, current_day))

\* the call of STEP 4; an IndexError leaves the loop at the entry that raises
EntryProcess ==
  /\ started = 0
  /\ \E fans \in EntryFanLists, current_day \in EntryDays :
       LET scraped_data == ("m1" :> Entry("m1", fans, 1))
       IN /\ IF IndexRaises(scraped_data, current_day)
               THEN /\ SetDB(process_scraped_data_raised(DB, clubs, TheClub, scraped_data,
                                                         {}, today, current_day))
                    /\ op' = Op("index_error", NoId, today)
               ELSE /\ SetDB(process_scraped_data(DB, clubs, TheClub, scraped_data,
                                                  today, current_day))
                    /\ op' = Op("process", NoId, today)
          /\ last' = [valid |-> TRUE, scraped |-> scraped_data, date |-> today,
                      current_day |-> current_day]
  /\ started' = 1
  /\ UNCHANGED <<clubs, scrape_locks, today, pc, run, cd_log, behind_run, reset_seen,
                 kick, roster, call, sched, sent>>

EntryNextDay ==
  /\ started = 1
  /\ today < MaxDay
  /\ today' = today + 1
  /\ started' = 0
  /\ op' = Op("day", NoId, NoDate)
  /\ UNCHANGED <<clubs, tables, scrape_locks, pc, run,
                 cd_log, behind_run, reset_seen, last, kick, roster, call, sched, sent>>

NextEntry == EntryProcess \/ EntryNextDay

SpecEntry == InitBombs /\ [][NextEntry]_vars

\* ================= the join date of a new member, on the calendar of datetime
Years == {2024, 2025}
JoinDays == 1..31

IsLeap(year) == year % 4 = 0 /\ (year % 100 # 0 \/ year % 400 = 0)

DaysInMonth(year, month) ==
  IF month = 2 THEN (IF IsLeap(year) THEN 29 ELSE 28)
  ELSE IF month \in {4, 6, 9, 11} THEN 30 ELSE 31

ValueError == [raised |-> "ValueError"]

\* datetime.date(year, month, day): ValueError when the day is not in the month
py_date(year, month, day) ==
  IF month \in 1..12 /\ day \in 1..DaysInMonth(year, month)
    THEN [year |-> year, month |-> month, day |-> day]
    ELSE ValueError

CalendarDates ==
  {x \in [year : Years, month : 1..12, day : 1..31] : x.day <= DaysInMonth(x.year, x.month)}

\* lines 228-238: the join date of a member first seen in this pass
new_member_join_date(detected_join_day, current_date) ==
  IF detected_join_day > current_date.day
    THEN IF current_date.month = 1
           THEN py_date(current_date.year - 1, 12, detected_join_day)
           ELSE py_date(current_date.year, current_date.month - 1, detected_join_day)
    ELSE py_date(current_date.year, current_date.month, detected_join_day)

\* one evaluation of lines 228-238
InferJoin ==
  /\ call = NoCall
  /\ \E current_date \in CalendarDates, detected_join_day \in JoinDays :
       call' = [fn |-> "join_date", current_date |-> current_date,
                join_day |-> detected_join_day,
                result |-> new_member_join_date(detected_join_day, current_date)]
  /\ UNCHANGED <<clubs, tables, scrape_locks, today, procs, op, cd_log, behind_run,
                 reset_seen, last, kick, roster, sent, sched>>

SpecJoin == InitBombs /\ [][InferJoin]_vars

\* ================================== the hourly loop and the runs it launches
HourlyDays == 2
LoopMinutes == {0, 45}
ScrapeTimes == {[hour |-> 1, minute |-> 0], [hour |-> 1, minute |-> 30],
                [hour |-> 16, minute |-> 0]}
DefaultScrapeTime == [hour |-> 16, minute |-> 0]
RunEnds == {"completed", "lock_busy", "scrape_failed"}
\* the local hours that can come twice on one day (the end of daylight saving time)
ClockBackHours == {1}

\* a clubs row with the columns the scheduler reads
MkScheduledClub(scrape_time, is_active) ==
  [daily_quota |-> DEFAULT_DAILY_QUOTA, bomb_trigger_days |-> DEFAULT_TRIGGER_DAYS,
   bomb_countdown_days |-> DEFAULT_COUNTDOWN_DAYS,
   scrape_time |-> scrape_time, is_active |-> is_active]

\* the loop starts at midnight of day 1, at any minute of the hour, and fires
\* every hour at that minute
InitHourly ==
  /\ \E st \in ScrapeTimes, active \in BOOLEAN :
       clubs = ("c1" :> MkScheduledClub(st, TRUE))
                 @@ ("c2" :> MkScheduledClub(DefaultScrapeTime, active))
  /\ today = 1
  /\ InitRest
  /\ last_runs = {}
  /\ launched = << >>
  /\ \E m \in LoopMinutes : now = [hour |-> 0, minute |-> m, fell_back |-> {}]

\* lines 64-65: the hour is the club's and the minute is not before the club's
IsTime(club, at) ==
  at.hour = club.scrape_time.hour /\ at.minute >= club.scrape_time.minute

\* the test of last_runs that never finds a key
AlreadyRan_never(runs, run_key) == FALSE

\* line 68: self.last_runs.get(run_key)
AlreadyRan(runs, run_key) == run_key \in runs

\* one firing of the loop, then the wait for the next one: an hour later on
\* the club's clock, or the same hour once more where the zone's clocks go back.
\* The loop never stops; the days after HourlyDays are followed as one day on
\* which the clock goes round and launches are not recorded
hourly_check ==
  /\ LET new == {<<c, today>> : c \in {x \in DOMAIN clubs :
                    /\ today <= HourlyDays
                    /\ clubs[x].is_active
                    /\ IsTime(clubs[x], now)
                    /\ ~AlreadyRan(last_runs, <<x, today>>)}}
     IN /\ last_runs' = last_runs \cup new
        /\ launched' = [k \in DOMAIN launched \cup new |->
              IF k \in new
                THEN [count |-> (IF k \in DOMAIN launched THEN launched[k].count ELSE 0) + 1,
                      ended |-> "running"]
                ELSE launched[k]]
  /\ \E again \in BOOLEAN :
       /\ again => (now.fell_back = {} /\ now.hour \in ClockBackHours /\ today <= HourlyDays)
       /\ now' = IF again THEN [now EXCEPT !.fell_back = {<<today, now.hour>>}]
                 ELSE [now EXCEPT !.hour = (now.hour + 1) % 24]
       /\ today' = IF ~again /\ now.hour = 23 /\ today <= HourlyDays THEN today + 1 ELSE today
  /\ UNCHANGED <<clubs, tables, scrape_locks, procs, ghosts>>

\* a launched daily_check_for_club returns: it went through, was refused the
\* lock, or gave up scraping; it writes nothing the loop reads
daily_check_returns ==
  /\ \E k \in DOMAIN launched, e \in RunEnds :
       /\ launched[k].ended = "running"
       /\ launched' = [launched EXCEPT ![k].ended = e]
  /\ UNCHANGED <<clubs, tables, scrape_locks, today, procs, ghosts, last_runs, now>>

NextHourly == hourly_check \/ daily_check_returns

SpecHourly == InitHourly /\ [][NextHourly]_vars

\* the loop is a timer: it keeps firing
SpecHourlyFair == InitHourly /\ [][NextHourly]_vars /\ WF_vars(hourly_check)

\* ============= the day's pass over a two-member club and the member commands
\* /add_member with a trainer_id: refused when the club has the trainer_id
add_member(k, join_date) ==
  /\ get_by_trainer_id(DB, TheClub, k) = NoId
  /\ SetDB(Member_create(DB, k, TheClub, k, join_date, k))
  /\ UNCHANGED <<clubs, scrape_locks, today, procs, ghosts, sched>>

NextMembers ==
  \/ RosterPass
  \/ RosterNextDay
  \/ \E k \in Keys : add_member(k, today)
  \/ \E m \in Keys : DeactivateMember(m)
  \/ \E m \in Keys : ActivateMember(m)

SpecMembers == InitRoster /\ [][NextMembers]_vars

\* ==================================================================== claims
\* C1: running process_scraped_data a second time with the same club, date,
\* day and scraped data, nothing written in between, leaves quota_history
\* exactly as the first run left it, whatever the member's earlier history
C1_RerunKeepsLedger == [][op'.name = "rerun" => quota_history' = quota_history]_vars

C4_ManualStaysInactive ==
  [][\A r \in Runs : (pc[r] = "process" /\ pc'[r] = "activate") =>
       \A m \in DOMAIN members :
         (members[m].manually_deactivated /\ ~members[m].is_active) => ~members'[m].is_active]_vars

C6_ForceHoldsLock ==
  \A r \in Runs \ Scheduled :
    pc[r] \in WritePcs =>
      (TheClub \in DOMAIN scrape_locks /\ scrape_locks[TheClub].locked_by = r)

C8_BombOnTthDayFull ==
  [][(started = 0 /\ started' = 1) =>
       \A k \in Keys :
         (today = clubs[TheClub].bomb_trigger_days /\ behind_run'[k] = today) =>
            /\ \A b \in bombs : b.member_id # k
            /\ \E b \in bombs' : /\ b.member_id = k
                                 /\ b.is_active
                                 /\ b.days_remaining = clubs[TheClub].bomb_countdown_days]_vars

\* the part of C9 a pass must satisfy for member k
C9_PassKeepsBomb(k) ==
  /\ \A b \in bombs : (b.member_id = k /\ b.is_active) =>
       \E b2 \in bombs' : b2.bomb_id = b.bomb_id /\ b2.is_active
  /\ today >= 10 =>
       /\ \E b \in bombs' : b.member_id = k /\ b.is_active /\ b.days_remaining = 0
       /\ k \in kick'

C9_Setting == clubs[TheClub].bomb_trigger_days = 3 /\ clubs[TheClub].bomb_countdown_days = 7

C11_MissingThenBack ==
  [][(started = 0 /\ started' = 1) =>
       \A k \in DOMAIN members :
         LET key == MemberKey(members[k])
         IN /\ (members[k].is_active /\ key \notin DOMAIN last'.scraped) =>
                  (~members'[k].is_active /\ ~members'[k].manually_deactivated)
            /\ (/\ k \in roster.away
                /\ ~members[k].is_active /\ ~members[k].manually_deactivated
                /\ key \in DOMAIN last'.scraped) =>
                  /\ members'[k].is_active
                  /\ \E h \in quota_history' : h.member_id = k /\ h.date = last'.date]_vars

\* m1 left in one pass and is back, active and with today's row, after the next
C11_Witness ==
  /\ started = 1
  /\ "m1" \in roster.back
  /\ members["m1"].is_active
  /\ \E h \in quota_history : h.member_id = "m1" /\ h.date = today

\* C12: _detect_monthly_reset_from_scraped returns True exactly when some key of
\* scraped_data is a key of previous_totals with previous value P and last
\* scraped value N such that 0 < N < 0.5 * P (N = 0 for an empty fans list)
C12_ResetIffHalved ==
  call.fn = "detect_monthly_reset_from_scraped" =>
    (call.result <=>
       \E k \in DOMAIN call.scraped_data \cap DOMAIN call.previous_totals :
         LET fans == call.scraped_data[k].fans
             N == IF Len(fans) = 0 THEN 0 ELSE fans[Len(fans)]
             P == call.previous_totals[k]
         IN 0 < N /\ 2 * N < P)

\* a reset flagged for m2 while m1, also known before, sits exactly at the half
C12_Witness ==
  /\ call.fn = "detect_monthly_reset_from_scraped"
  /\ call.result
  /\ DOMAIN call.scraped_data = Keys /\ DOMAIN call.previous_totals = Keys
  /\ call.scraped_data["m1"].fans = <<2>> /\ call.previous_totals["m1"] = 4

\* C13: for a club without quota_requirements rows calculate_expected_fans
\* returns (days from join_date to current_date inclusive) * club.daily_quota
\* when join_date is in current_date's month, and (day of month of
\* current_date) * club.daily_quota when the member joined in an earlier month
C13_FlatQuota ==
  (call.fn = "calculate_expected_fans" /\ quota_requirements = {}) =>
    call.result =
      (IF MonthOf(call.member_join_date) = MonthOf(call.current_date)
         THEN call.current_date - call.member_join_date + 1
         ELSE DayOfMonth(call.current_date)) * clubs[TheClub].daily_quota

\* joined on day 5, asked on day 10, club quota of one default quota: 6
C13_Witness ==
  /\ call.fn = "calculate_expected_fans" /\ quota_requirements = {}
  /\ clubs[TheClub].daily_quota = DEFAULT_DAILY_QUOTA
  /\ call.member_join_date = 5 /\ call.current_date = 10
  /\ call.result = 6 * DEFAULT_DAILY_QUOTA

\* the amounts day d may count: the daily_quota of a row with the greatest
\* effective_date <= d, the club's default when there is no such row
C14_DayAmounts(d) ==
  LET rows == {r \in quota_requirements : r.club_id = TheClub /\ r.effective_date <= d}
  IN IF rows = {} THEN {clubs[TheClub].daily_quota}
     ELSE {r.daily_quota : r \in {x \in rows : x.effective_date = Max({y.effective_date : y \in rows})}}

RECURSIVE C14_Sums(_, _)
C14_Sums(lo, hi) ==
  IF lo > hi THEN {0}
  ELSE {a + b : a \in C14_DayAmounts(lo), b \in C14_Sums(lo + 1, hi)}

\* C14: calculate_expected_fans adds up, for each day d from the effective start
\* to current_date, the daily_quota of a row with the greatest effective_date
\* <= d, or the club's default when there is none; and a /quota command, whose
\* row is effective today, changes the amount of no earlier day
C14_ScheduledQuota ==
  /\ [](call.fn = "calculate_expected_fans" =>
          call.result \in
            C14_Sums(IF MonthOf(call.member_join_date) = MonthOf(call.current_date)
                       THEN call.member_join_date
                       ELSE call.current_date - DayOfMonth(call.current_date) + 1,
                     call.current_date))
  /\ [][quota_requirements' # quota_requirements =>
          \A d \in 1..(today - 1) :
            QuotaOutcomes(DB', clubs, TheClub, d) = QuotaOutcomes(DB, clubs, TheClub, d)]_vars

\* default 1, a row of 2 effective on day 15, member since day 1, asked on day 20
C14_Witness ==
  /\ call.fn = "calculate_expected_fans"
  /\ clubs[TheClub].daily_quota = DEFAULT_DAILY_QUOTA
  /\ {<<r.effective_date, r.daily_quota>> : r \in quota_requirements} = {<<15, 2>>}
  /\ call.member_join_date = 1 /\ call.current_date = 20
  /\ call.result = 26 * DEFAULT_DAILY_QUOTA

C16_EntryFaultIsolated ==
  [][\A r \in Scheduled :
       (pc[r] = "process" /\ run'[r].path = "entry_error") =>
          /\ pc'[r] = "activate"
          /\ Cardinality({k \in DOMAIN run[r].scraped :
                ~\E h \in quota_history' : h.member_id = k /\ h.date = run[r].date}) <= 1]_vars

\* C17: when STEP 5 hands over to reporting, no member but the one whose bomb
\* logic raised is left unexamined by check_and_activate_bombs, and no member but
\* that one is missing from the to-kick list
C17_BombFaultIsolated ==
  [][\A r \in Scheduled :
       (pc[r] \in BombPcs /\ pc'[r] = "report") =>
          /\ Cardinality(run[r].todo) <= 1
          /\ Cardinality(check_expired_bombs(DB') \ run'[r].members_to_kick) <= 1]_vars

C19_BusyRunNoEffect ==
  [][(started' = started + 1 /\ pc' = pc) =>
       /\ tables' = tables
       /\ run' = run
       /\ scrape_locks' = scrape_locks]_vars

\* a run was turned away while the other one holds the lock row
C19_Witness ==
  /\ op.name = "lock_busy"
  /\ TheClub \in DOMAIN scrape_locks
  /\ scrape_locks[TheClub].locked_by # op.run
  /\ pc[scrape_locks[TheClub].locked_by] \in ContextPcs

\* C20: an attempt whose scrape returns an empty result ends the loop: the run
\* goes on to process_scraped_data with the empty data and sends no
\* scrape-failure report
C20_EmptyScrapeIsValid ==
  [][\A r \in Scheduled :
       (/\ pc[r] = "scrape"
        /\ run'[r].attempt = run[r].attempt + 1
        /\ run'[r].scraped = << >>
        /\ run'[r].last_error = "empty_data") =>
          /\ pc'[r] = "process"
          /\ "error_report" \notin run'[r].sent]_vars

C22_ResetKeepsManualFlag ==
  [][(started = 0 /\ started' = 1 /\ WouldReset(DB, TheClub, last'.scraped)) =>
       \A m \in DOMAIN members :
         /\ members'[m].manually_deactivated = members[m].manually_deactivated
         /\ (members[m].manually_deactivated /\ ~members[m].is_active) =>
              LET after == MonthlyReset(DB, TheClub).members[m]
              IN after.manually_deactivated /\ ~after.is_active]_vars

\* the rows that do not belong to TheClub
OtherRows(db) ==
  [members |-> {<<m, db.members[m]>> : m \in {x \in DOMAIN db.members :
                                               db.members[x].club_id # TheClub}},
   quota_history |-> {h \in db.quota_history : h.club_id # TheClub},
   bombs |-> {b \in db.bombs : db.members[b.member_id].club_id # TheClub},
   quota_requirements |-> {q \in db.quota_requirements : q.club_id # TheClub}]

C24_ManualEntrySkipped ==
  [][(started = 0 /\ started' = 1) =>
       LET pre == process_scraped_data_raised(DB, clubs, TheClub, last'.scraped, {},
                                              last'.date, last'.current_day)
       IN \A key \in DOMAIN last'.scraped :
            LET m == get_by_trainer_id(pre, TheClub, last'.scraped[key].trainer_id)
            IN (/\ m # NoId
                /\ ~pre.members[m].is_active
                /\ pre.members[m].manually_deactivated) =>
                  /\ members'[m].trainer_name = pre.members[m].trainer_name
                  /\ members'[m].last_seen = pre.members[m].last_seen
                  /\ members'[m].is_active = pre.members[m].is_active
                  /\ members'[m].manually_deactivated = pre.members[m].manually_deactivated
                  /\ {h \in quota_history' : h.member_id = m}
                       = {h \in pre.quota_history : h.member_id = m}]_vars

\* C25: every pass, scheduled or manual, calls process_scraped_data with the
\* data date the scraper reports (the day before the calendar date), so that
\* the ledger rows of a scheduled and of a manual pass carry the same date
C25_PassUsesDataDate ==
  [][(started' = started + 1) =>
       /\ last'.date = today - 1
       /\ \A h \in quota_history' \ quota_history : h.date = today - 1]_vars

\* the member's ledger rows from the latest one backwards: how many come before
\* the first one with deficit_surplus >= 0
C26_BehindRun(m) ==
  LeadingBehind(NewestFirst(RowsOf(DB, m), Cardinality(RowsOf(DB, m))))

C27_DaysBehind(m, D, deficit_surplus) ==
  IF deficit_surplus >= 0 THEN 0
  ELSE 1 + LeadingBehind(NewestFirst({h \in RowsOf(DB, m) : h.date < D}, HISTORY_WINDOW))

\* C27: the days_behind a process_scraped_data call stores for date D is 0 for
\* deficit_surplus >= 0 and otherwise 1 plus the run of behind rows at the head
\* of the 10 newest rows dated before D, whether or not a row for D was there
C27_DaysBehindWindow ==
  [][op'.name \in {"process", "rerun"} =>
       \A h \in quota_history' :
         h.date = last'.date => h.days_behind = C27_DaysBehind(h.member_id, h.date, h.deficit_surplus)]_vars

C29_ExpiredChangesNothing ==
  [][(started = 4 /\ started' = 5) =>
       /\ bombs' = bombs
       /\ members' = members
       /\ \A b \in bombs : (b.is_active /\ b.days_remaining = 0) =>
            \E b2 \in bombs' : b2.bomb_id = b.bomb_id /\ b2.is_active /\ b2.days_remaining = 0
       /\ \A m \in kick' : members'[m].is_active]_vars

\* after the call: m1 was returned, is active, and its bomb stands at 0, active
\* and without a deactivation date
C29_Witness ==
  /\ started = 5 /\ "m1" \in kick
  /\ members["m1"].is_active /\ ~members["m1"].manually_deactivated
  /\ \E b \in bombs : /\ b.member_id = "m1" /\ b.is_active /\ b.days_remaining = 0
                       /\ b.deactivation_date = NoDate

C31_ClosedBombIsFinal ==
  [][(started \in 1..4 /\ started' = started + 1) =>
       /\ \A b \in bombs : (~b.is_active /\ b.deactivation_date # NoDate) => b \in bombs'
       /\ \A b2 \in bombs' \ bombs :
            b2.is_active => \A b \in bombs : ~b.is_active => b.bomb_id # b2.bomb_id]_vars

\* m1 has a closed bomb, deactivated on day 2, and beside it the bomb of a
\* later warning, created on day 3
C31_Witness ==
  /\ today = 3 /\ started >= 2
  /\ \E b \in bombs : /\ b.member_id = "m1" /\ ~b.is_active /\ b.deactivation_date = 2
  /\ \E b \in bombs : /\ b.member_id = "m1" /\ b.is_active /\ b.activation_date = 3

\* C32: every club has bomb_trigger_days >= 1 and bomb_countdown_days >= 1
C32_BombDaysPositive ==
  \A c \in DOMAIN clubs :
    clubs[c].bomb_trigger_days >= 1 /\ clubs[c].bomb_countdown_days >= 1

\* C33: the ledger row a process_scraped_data call writes for a member holds
\* daily_fans[current_day - 1] when 1 <= current_day <= len(daily_fans) and the
\* last element of daily_fans when current_day > len(daily_fans); the call does
\* not end in an IndexError
C33_CurrentDayClamped ==
  [][(started = 0 /\ started' = 1) =>
       LET daily_fans == last'.scraped["m1"].fans
           current_day == last'.current_day
       IN /\ op'.name = "process"
          /\ \E h \in quota_history' : h.member_id = "m1" /\ h.date = last'.date
          /\ \A h \in quota_history' :
               (h.member_id = "m1" /\ h.date = last'.date) =>
                 /\ (1 <= current_day /\ current_day <= Len(daily_fans))
                       => h.cumulative_fans = daily_fans[current_day]
                 /\ current_day > Len(daily_fans)
                       => h.cumulative_fans = daily_fans[Len(daily_fans)]]_vars

\* a call with current_day = 4 on a two-day list has returned and stored the
\* last element of the list
C33_Witness ==
  /\ started = 1 /\ last.valid /\ op.name = "process"
  /\ last.scraped["m1"].fans = <<0, 2>> /\ last.current_day = 4
  /\ \E h \in quota_history : h.date = today /\ h.cumulative_fans = 2

\* C35: no ledger row has cumulative_fans < 0: a negative value of daily_fans
\* is stored as 0
C35_NoNegativeLedger ==
  \A h \in quota_history : h.cumulative_fans >= 0

\* C34: for any join_day in 1..31 and any current_date the new member branch
\* yields a date and raises nothing: day join_day of current_date's month when
\* join_day <= current_date.day, else day join_day of the month before
\* (December of the year before when current_date is in January)
C34_JoinDateNeverRaises ==
  call.fn = "join_date" =>
    LET D == call.current_date
        prev == IF D.month = 1 THEN [year |-> D.year - 1, month |-> 12]
                ELSE [year |-> D.year, month |-> D.month - 1]
    IN /\ call.result # ValueError
       /\ call.result = IF call.join_day <= D.day
                          THEN [year |-> D.year, month |-> D.month, day |-> call.join_day]
                          ELSE [year |-> prev.year, month |-> prev.month,
                                day |-> call.join_day]

\* the position a run may come from when it enters a step of the pass
C36_Before(step) ==
  CASE step = "process" -> {"scrape"}
    [] step = "activate" -> {"process"}
    [] step = "act_check" -> {"activate", "act_create"}
    [] step = "act_create" -> {"act_check"}
    [] step = "countdown" -> {"act_check"}
    [] step = "deactivate" -> {"countdown"}
    [] step = "expired" -> {"deactivate"}
    [] OTHER -> {"idle"} \cup ContextPcs

\* C36: in a scheduled run and in a manual one, a step of the pass is entered
\* only when the step before it has returned: process_scraped_data, then
\* check_and_activate_bombs, update_bomb_countdowns, check_and_deactivate_bombs,
\* check_expired_bombs; and what process_scraped_data leaves is the member loop
\* applied to the result of the auto-deactivation applied to the result of the
\* reset (where one is detected)
C36_StepOrder ==
  [][\A r \in MainRuns :
       /\ pc'[r] # pc[r] => pc[r] \in C36_Before(pc'[r])
       /\ (pc[r] = "process" /\ pc'[r] = "activate") =>
            LET sd == run[r].scraped
                d1 == IF WouldReset(DB, TheClub, sd) THEN MonthlyReset(DB, TheClub) ELSE DB
                d2 == auto_deactivate_missing_members(d1, TheClub, DOMAIN sd)
                d3 == ProcessEntries(d2, clubs, TheClub, sd, DOMAIN sd,
                                     run[r].date, run[r].current_day)
            IN /\ members' = d3.members /\ quota_history' = d3.quota_history
               /\ bombs' = d3.bombs /\ quota_requirements' = d3.quota_requirements]_vars

\* the second run of the model, a manual one, has gone through every step of
\* its pass and stands before its reports; the ledger holds the row its
\* process_scraped_data call wrote and no older one
C36_Witness ==
  /\ pc["f1"] = "report"
  /\ \E h \in quota_history : h.date = run["f1"].date /\ h.cumulative_fans = 2
  /\ \A h \in quota_history : h.date = run["f1"].date
  /\ started = 2

\* C37: for every active club and every day the loop runs through, the loop
\* at some point launches daily_check_for_club for that club with that day's
\* date, whatever the club's scrape_time and the minute at which the loop fires
C37_EveryDayLaunched ==
  \A c \in ClubNames : \A d \in 1..HourlyDays :
    <>(clubs[c].is_active => <<c, d>> \in DOMAIN launched)

\* C38: the loop launches daily_check_for_club at most once for a club and a
\* date, however the launched run ended
C38_OneLaunchPerDay ==
  \A k \in DOMAIN launched : launched[k].count <= 1

\* the run launched for c1 on day 1 was refused the lock, and the loop has since
\* fired once more in the club's hour of that day (the hour came twice)
C38_Witness ==
  /\ <<"c1", 1>> \in DOMAIN launched
  /\ launched[<<"c1", 1>>].ended = "lock_busy"
  /\ launched[<<"c1", 1>>].count = 1
  /\ now.fell_back = {<<1, clubs["c1"].scrape_time.hour>>}
  /\ today = 1 /\ now.hour = clubs["c1"].scrape_time.hour + 1
  /\ now.minute >= clubs["c1"].scrape_time.minute

\* C39: a member with manually_deactivated = TRUE has is_active = FALSE
C39_ManualImpliesInactive ==
  \A m \in DOMAIN members : members[m].manually_deactivated => ~members[m].is_active

\* m1 is manually deactivated and the last pass, which had m1 in its scrape,
\* left it so: last_seen is older than the pass
C39_Witness ==
  /\ "m1" \in DOMAIN members
  /\ members["m1"].manually_deactivated /\ ~members["m1"].is_active
  /\ last.valid /\ "m1" \in DOMAIN last.scraped /\ started = 1
  /\ members["m1"].last_seen < last.date

\* C40: the release_lock of a returning run deletes only the lock row that this
\* run inserted, never the row another run inserted after purging the first
\* run's row as stale
C40_ReleaseOwnRowOnly ==
  [][\A r \in Scheduled :
       (/\ pc[r] # "idle" /\ pc'[r] = "idle" /\ run[r].lock_acquired
        /\ TheClub \in DOMAIN scrape_locks
        /\ TheClub \notin DOMAIN scrape_locks')
       => scrape_locks[TheClub].locked_by = r]_vars

=============================================================================
